---- MODULE Spec2Model ----
(***************************************************************************)
(* aio-terminal: the transcript engine of AgentView (src/src/agent_view.rs) *)
(* and the PTY session of Terminal (src/src/terminal.rs).                  *)
(*                                                                         *)
(* A Rust String is modelled as a sequence of characters, each character a *)
(* one-element TLA+ string.  Characters outside ASCII are written by their *)
(* code point ("U+276F" is the prompt glyph, "U+280B" a braille spinner)   *)
(* and keep their UTF-8 width, because the code mixes character counts and *)
(* byte offsets.                                                           *)
(***************************************************************************)
EXTENDS Integers, Sequences, FiniteSets, TLC

\* ------------------------------------------------------------------ bounds

\* Longest screen text (in characters) of the exhaustive part of ScreenTexts.
MaxLen == 1
\* The frames AgentView::render draws in one behaviour.
MaxFrames == 2
\* Longest text (in characters) the delta alone is evaluated on.
MaxDeltaLen == 4
\* The chunks the child writes in one behaviour.
MaxChunks == 3
\* The pieces (tool identifiers and single characters) of a classified line.
MaxTokens == 3
\* The writes the child is given in one behaviour.
MaxInputs == 1
MaxSessions == 3
MaxRequests == 3
MaxCalls == 2
MaxEvents == 5

\* ------------------------------------------------------------ characters

NL == "\n"
SP == " "
CR == "\r"
\* U+276F HEAVY RIGHT-POINTING ANGLE QUOTATION MARK ORNAMENT, the prompt glyph.
PromptGlyph == "U+276F"
\* The ten braille spinner frames of is_tool_line.
SpinnerGlyphs ==
    {"U+280B", "U+2819", "U+2839", "U+2838", "U+283C",
     "U+2834", "U+2826", "U+2827", "U+2807", "U+280F"}

\* char::len_utf8: code points U+0800..U+FFFF take three bytes, ASCII one.
len_utf8(c) == IF c = PromptGlyph \/ c \in SpinnerGlyphs THEN 3 ELSE 1

\* char::is_whitespace, on the characters of the model.
is_whitespace(c) == c \in {SP, NL, CR, "\t"}

RECURSIVE str_len(_)
\* str::len: the length in BYTES.
str_len(s) == IF s = <<>> THEN 0 ELSE len_utf8(Head(s)) + str_len(Tail(s))

\* str::starts_with
starts_with(s, p) == Len(p) <= Len(s) /\ SubSeq(s, 1, Len(p)) = p

\* str::contains
contains(s, p) ==
    \E i \in 0..(Len(s) - Len(p)) : SubSeq(s, i + 1, i + Len(p)) = p

RECURSIVE trim_start(_)
trim_start(s) ==
    IF s # <<>> /\ is_whitespace(Head(s)) THEN trim_start(Tail(s)) ELSE s

RECURSIVE trim_end(_)
trim_end(s) ==
    IF s # <<>> /\ is_whitespace(s[Len(s)])
    THEN trim_end(SubSeq(s, 1, Len(s) - 1))
    ELSE s

\* str::trim
trim(s) == trim_end(trim_start(s))

\* One line of str::lines: a trailing "\r" that preceded the "\n" is removed.
strip_cr(l) ==
    IF l # <<>> /\ l[Len(l)] = CR THEN SubSeq(l, 1, Len(l) - 1) ELSE l

RECURSIVE lines_from(_, _)
\* The lines of s, cur being the characters of the line being read.
lines_from(s, cur) ==
    IF s = <<>> THEN (IF cur = <<>> THEN <<>> ELSE <<cur>>)
    ELSE IF Head(s) = NL THEN <<strip_cr(cur)>> \o lines_from(Tail(s), <<>>)
    ELSE lines_from(Tail(s), Append(cur, Head(s)))

\* str::lines: split at "\n"; a final line needs no terminator, and a
\* terminator at the very end opens no empty last line.
lines(s) == lines_from(s, <<>>)

RECURSIVE common_prefix(_, _)
\* a.chars().zip(b.chars()).take_while(|(x, y)| x == y).count(): the number
\* of CHARACTERS of the longest common prefix.
common_prefix(a, b) ==
    IF a # <<>> /\ b # <<>> /\ Head(a) = Head(b)
    THEN 1 + common_prefix(Tail(a), Tail(b))
    ELSE 0

\* str::is_char_boundary(k): byte offset k starts a character or is the end.
is_char_boundary(s, k) ==
    \E n \in 0..Len(s) : str_len(SubSeq(s, 1, n)) = k

\* &s[k..] with k a BYTE offset: Rust panics when k is past the end or inside
\* a character.  [panic |-> TRUE] stands for that panic.
slice_from(s, k) ==
    IF is_char_boundary(s, k)
    THEN LET n == CHOOSE n \in 0..Len(s) : str_len(SubSeq(s, 1, n)) = k
         IN  [panic |-> FALSE, text |-> SubSeq(s, n + 1, Len(s))]
    ELSE [panic |-> TRUE, text |-> <<>>]

\* ------------------------------------------------------- transcript engine

\* enum MessageKind { User, Assistant, Tool { name, collapsed } } and
\* struct ChatMessage { kind, content }.  name and collapsed exist only in a
\* Tool message; the other kinds carry the fixed values below.
ChatMessage(kind, content, name, collapsed) ==
    [kind |-> kind, content |-> content, name |-> name, collapsed |-> collapsed]

UserMessage(text) == ChatMessage("User", text, <<>>, FALSE)
AssistantMessage(text) == ChatMessage("Assistant", text, <<>>, FALSE)
ToolMessage(name, text) == ChatMessage("Tool", text, name, TRUE)

\* The tool identifiers of extract_tool_name, in the order of the array.
tools ==
    << <<"R","e","a","d">>, <<"W","r","i","t","e">>, <<"E","d","i","t">>,
       <<"B","a","s","h">>, <<"b","a","s","h">>,
       <<"M","u","l","t","i","E","d","i","t">>, <<"G","l","o","b">>,
       <<"G","r","e","p">>, <<"L","S">>,
       <<"T","o","d","o","R","e","a","d">>,
       <<"T","o","d","o","W","r","i","t","e">> >>

\* The patterns of is_tool_line: every identifier followed by "(" and the
\* spinner glyphs.
patterns ==
    {Append(tools[i], "(") : i \in 1..Len(tools)} \cup {<<g>> : g \in SpinnerGlyphs}

\* patterns.iter().any(|p| line.contains(p))
is_tool_line(line) == \E p \in patterns : contains(line, p)

\* The generic name of a tool line that names no known tool.
GenericTool == <<"T","o","o","l">>

\* Mutant of extract_tool_name: the last identifier that matches wins.
extract_tool_name_last(line) ==
    LET hits == {i \in 1..Len(tools) : contains(line, Append(tools[i], "("))}
    IN  IF hits = {} THEN GenericTool
        ELSE tools[CHOOSE i \in hits : \A j \in hits : i >= j]

\* The first identifier t of tools, in order, with line.contains(t + "(").
extract_tool_name(line) ==
    LET hits == {i \in 1..Len(tools) : contains(line, Append(tools[i], "("))}
    IN  IF hits = {} THEN GenericTool
        ELSE tools[CHOOSE i \in hits : \A j \in hits : i <= j]

\* The prompt markers of parse_new_content.
prompt_markers == { <<PromptGlyph, SP>>, <<">", SP>>, <<"$", SP>> }

is_prompt_line(trimmed) == \E m \in prompt_markers : starts_with(trimmed, m)

\* messages.last_mut() is Some(last) with last.kind == Assistant
last_is_assistant(msgs) == msgs # <<>> /\ msgs[Len(msgs)].kind = "Assistant"

\* Mutant of push_to_last: the text replaces the content (an assignment where
\* the code appends).
push_to_last_overwrites(msgs, text) ==
    [msgs EXCEPT ![Len(msgs)].content = text]

\* last.content.push_str(text) on the last message
push_to_last(msgs, text) ==
    [msgs EXCEPT ![Len(msgs)].content = @ \o text]

\* A state of the loop of parse_new_content: the two fields it assigns.
ParseState(msgs, acc) == [messages |-> msgs, accumulating_assistant |-> acc]

\* Mutant of on_blank: a blank line closes the open Assistant message.
on_blank_closes(st) == ParseState(st.messages, FALSE)

\* A blank line: a newline goes to the open Assistant message, if any.
on_blank(st) ==
    IF st.accumulating_assistant /\ last_is_assistant(st.messages)
    THEN ParseState(push_to_last(st.messages, <<NL>>), TRUE)
    ELSE st

\* Mutant of on_tool: accumulating_assistant is left as it was.
on_tool_keeps_flag(st, trimmed) ==
    [messages |-> Append(st.messages,
                         ToolMessage(extract_tool_name(trimmed), trimmed)),
     accumulating_assistant |-> st.accumulating_assistant]

\* Mutant of on_tool: the state is reset and no message is pushed.
on_tool_drops_line(st, trimmed) ==
    [messages |-> st.messages, accumulating_assistant |-> FALSE]

\* Mutant of on_tool: the Tool message starts expanded.
on_tool_expanded(st, trimmed) ==
    ParseState(
        Append(st.messages,
               ChatMessage("Tool", trimmed, extract_tool_name(trimmed), FALSE)),
        FALSE)

\* A tool line: a new collapsed Tool message; no assistant block is open.
on_tool(st, trimmed) ==
    ParseState(
        Append(st.messages, ToolMessage(extract_tool_name(trimmed), trimmed)),
        FALSE)

\* A prompt echo: dropped; no assistant block is open.
on_prompt(st) == ParseState(st.messages, FALSE)

\* Mutant of on_assistant: the line is appended without the newline.
on_assistant_no_newline(st, trimmed) ==
    IF st.accumulating_assistant /\ last_is_assistant(st.messages)
    THEN ParseState(push_to_last(st.messages, trimmed), TRUE)
    ELSE ParseState(Append(st.messages, AssistantMessage(trimmed)), TRUE)

\* Assistant text: it extends the open Assistant message or opens a new one.
on_assistant(st, trimmed) ==
    IF st.accumulating_assistant /\ last_is_assistant(st.messages)
    THEN ParseState(push_to_last(st.messages, <<NL>> \o trimmed), TRUE)
    ELSE ParseState(Append(st.messages, AssistantMessage(trimmed)), TRUE)

\* Mutant of parse_line: the prompt test stands before the tool test.
parse_line_prompt_first(st, line) ==
    LET trimmed == trim(line)
    IN  IF trimmed = <<>> THEN on_blank(st)
        ELSE IF is_prompt_line(trimmed) THEN on_prompt(st)
        ELSE IF is_tool_line(trimmed) THEN on_tool(st, trimmed)
        ELSE on_assistant(st, trimmed)

\* One iteration of the loop of parse_new_content.
parse_line(st, line) ==
    LET trimmed == trim(line)
    IN  IF trimmed = <<>> THEN on_blank(st)
        ELSE IF is_tool_line(trimmed) THEN on_tool(st, trimmed)
        ELSE IF is_prompt_line(trimmed) THEN on_prompt(st)
        ELSE on_assistant(st, trimmed)

RECURSIVE parse_lines(_, _)
parse_lines(st, ls) ==
    IF ls = <<>> THEN st ELSE parse_lines(parse_line(st, Head(ls)), Tail(ls))

\* AgentView::parse_new_content
parse_new_content(st, content) == parse_lines(st, lines(content))

\* Mutant of new_content: the offset behind the common prefix, a count of
\* characters, is used on the append path too.
new_content_counts_chars(last, current) ==
    LET common == common_prefix(last, current)
    IN  IF common < str_len(current)
        THEN slice_from(current, common)
        ELSE [panic |-> FALSE, text |-> <<>>]

\* The delta of poll_output for current_text # last_screen_text: the suffix
\* behind last (both lengths in bytes), else the text behind the common
\* prefix, whose length is counted in CHARACTERS and then used as a byte
\* offset.
new_content(last, current) ==
    IF str_len(current) > str_len(last) /\ starts_with(current, last)
    THEN slice_from(current, str_len(last))
    ELSE IF current # last
    THEN LET common == common_prefix(last, current)
         IN  IF common < str_len(current)
             THEN slice_from(current, common)
             ELSE [panic |-> FALSE, text |-> <<>>]
    ELSE [panic |-> FALSE, text |-> <<>>]

\* What poll_output leaves in the three fields it assigns, with panic (the
\* slice panicked and nothing was assigned) and the delta it computed.
PollResult(msgs, last, acc, panic, d) ==
    [messages |-> msgs, last_screen_text |-> last,
     accumulating_assistant |-> acc, panic |-> panic, delta |-> d]

\* Mutant of poll_output: no comparison with last_screen_text, the whole
\* screen is parsed at every poll.
poll_output_reparses(av, current) ==
    IF trim(current) = <<>>
    THEN PollResult(av.messages, current, av.accumulating_assistant, FALSE, current)
    ELSE LET st == parse_new_content(
                      ParseState(av.messages, av.accumulating_assistant), current)
         IN  PollResult(st.messages, current, st.accumulating_assistant,
                        FALSE, current)

\* Mutant of poll_output: last_screen_text is assigned behind the check for a
\* blank delta instead of before it.
poll_output_assigns_late(av, current) ==
    LET d == new_content(av.last_screen_text, current)
    IN  IF current = av.last_screen_text \/ (~d.panic /\ trim(d.text) = <<>>)
        THEN PollResult(av.messages, av.last_screen_text,
                        av.accumulating_assistant, FALSE, d.text)
        ELSE IF d.panic
        THEN PollResult(av.messages, av.last_screen_text,
                        av.accumulating_assistant, TRUE, <<>>)
        ELSE LET st == parse_new_content(
                          ParseState(av.messages, av.accumulating_assistant),
                          d.text)
             IN  PollResult(st.messages, current, st.accumulating_assistant,
                            FALSE, d.text)

\* Mutant of poll_output: a delta of whitespace is parsed like any other.
poll_output_parses_blank(av, current) ==
    LET d == new_content(av.last_screen_text, current)
    IN  IF current = av.last_screen_text
        THEN PollResult(av.messages, av.last_screen_text,
                        av.accumulating_assistant, FALSE, <<>>)
        ELSE IF d.panic
        THEN PollResult(av.messages, av.last_screen_text,
                        av.accumulating_assistant, TRUE, <<>>)
        ELSE LET st == parse_new_content(
                          ParseState(av.messages, av.accumulating_assistant),
                          d.text)
             IN  PollResult(st.messages, current, st.accumulating_assistant,
                            FALSE, d.text)

\* AgentView::poll_output on av = [messages, last_screen_text,
\* accumulating_assistant] with current the text the screen shows.
poll_output(av, current) ==
    LET d == new_content(av.last_screen_text, current)
    IN  IF current = av.last_screen_text
        THEN PollResult(av.messages, av.last_screen_text,
                        av.accumulating_assistant, FALSE, <<>>)
        ELSE IF d.panic
        THEN PollResult(av.messages, av.last_screen_text,
                        av.accumulating_assistant, TRUE, <<>>)
        ELSE IF trim(d.text) = <<>>
        THEN PollResult(av.messages, current, av.accumulating_assistant,
                        FALSE, d.text)
        ELSE LET st == parse_new_content(
                          ParseState(av.messages, av.accumulating_assistant),
                          d.text)
             IN  PollResult(st.messages, current, st.accumulating_assistant,
                            FALSE, d.text)

\* ---------------------------------------------------------------- state

VARIABLES
    \* struct AgentView
    messages,                \* Vec<ChatMessage>
    last_screen_text,        \* String
    accumulating_assistant,  \* bool
    show_raw,                \* bool
    \* the position of the UI thread inside AgentView::render
    av_pc,                   \* "top", "messages" or "input"
    \* the UI thread has panicked inside AgentView::render
    av_panicked,
    \* the frames rendered so far
    frames,
    \* what the last step of render did and on what input
    op,                      \* "new", "raw", "poll", "toggle", "noclick",
                             \* "submit" or "noenter"
    prev_text,               \* last_screen_text when the last poll began
    current_text,            \* the screen text the last poll read
    written                  \* the bytes this frame gave to write_input

av_vars ==
    <<messages, last_screen_text, accumulating_assistant, show_raw,
      av_pc, av_panicked, frames, op, prev_text, current_text, written>>

VARIABLES
    \* one evaluation of the delta of poll_output on its own
    d_pc,                    \* "off", "call" or "done"
    d_last,                  \* last_screen_text
    d_current,               \* current_text
    d_result                 \* [panic, text]: what the evaluation gave

delta_vars == <<d_pc, d_last, d_current, d_result>>

VARIABLES
    \* struct Terminal
    rows, cols,              \* u16
    parser,                  \* the vt100::Parser behind the mutex: [rows, cols,
                             \* applied: the chunks processed, in order,
                             \* partial: a chunk is applied in part]
    parser_lock,             \* who holds the mutex: "free", "reader" or "ui"
    parser_poisoned,         \* a holder of the mutex panicked
    \* the PTY and the child process
    produced,                \* the chunks the child has written so far
    child_exited,            \* the child has closed its end
    \* the reader thread of Terminal::new
    reader_pc,               \* "off", "read", "match", "lock", "process",
                             \* "processing", "done" or "panicked"
    read_result,             \* what the last read returned: "none", "ok",
                             \* "eof" or "err"
    buf,                     \* the chunk in the buffer (0: none)
    read_log,                \* the chunks read, in order
    skipped,                 \* the chunks dropped at a poisoned mutex
    \* the UI thread inside Terminal::render
    ui_pc,                   \* "off", "idle", "resize_lock", "resize_set",
                             \* "render_lock", "render_paint", "snapshot_read",
                             \* "dropped" or "panicked"
    seen,                    \* what the last paint read: [valid, applied,
                             \* partial]
    snapshot,                \* what the last screen_text read, likewise
    \* the writer half of the PTY
    pty_in,                  \* the writes the child was given
    writer_poisoned,         \* a holder of the writer mutex panicked
    last_write,              \* how the last write_input went: "none", "ok",
                             \* "err" or "poisoned"
    readers_spawned          \* the reader threads spawned for the session

writer_vars == <<pty_in, writer_poisoned, last_write>>

term_vars ==
    <<rows, cols, parser, parser_lock, parser_poisoned, produced, child_exited,
      reader_pc, read_result, buf, read_log, skipped, ui_pc, seen, snapshot,
      writer_vars, readers_spawned>>

VARIABLES
    \* one iteration of the loop of parse_new_content, alone
    l_pc,                    \* "off", "call" or "done"
    l_line,                  \* the line of the delta
    l_before,                \* messages and accumulating_assistant before
    l_after                  \* and after the iteration

line_vars == <<l_pc, l_line, l_before, l_after>>

VARIABLES
    \* one egui::Event::Key { pressed: true } of Terminal::render
    k_pc,                    \* "off", "call" or "done"
    k_key,                   \* egui::Key
    k_modifiers,             \* egui::Modifiers
    k_seq,                   \* the Vec<u8> key_to_escape returned
    k_writes                 \* the calls of write_input the event made

key_vars == <<k_pc, k_key, k_modifiers, k_seq, k_writes>>

VARIABLES
    \* one call of vt100_color_to_egui for a cell of Terminal::render
    c_pc,                    \* "off", "call" or "done"
    c_color,                 \* vt100::Color
    c_is_fg,                 \* bool
    c_result                 \* the Color32 returned

color_vars == <<c_pc, c_color, c_is_fg, c_result>>

VARIABLES
    \* the statics of the process
    NEXT_TERM_ID,            \* AtomicUsize of terminal.rs
    NEXT_AV_ID,              \* AtomicUsize of agent_view.rs
    \* the threads that create sessions
    i_pc,                    \* per thread: "idle", "spawned" or "view"
    i_kind,                  \* per thread: "terminal" or "agent"
    \* the ids given so far, in the order of the fetch_add calls
    i_assigned,              \* sequence of [kind |-> "terminal" or "view", id]
    i_live                   \* the positions in i_assigned not yet dropped

ids_vars == <<NEXT_TERM_ID, NEXT_AV_ID, i_pc, i_kind, i_assigned, i_live>>

VARIABLES
    \* the process of the host
    a_pc,                    \* "off", "new0", "new1", "new2", "running"
                             \* or "panicked"
    \* struct AioApp
    pane_root,               \* PaneNode
    terminals,               \* the keys of HashMap<usize, Terminal>
    editors,                 \* the keys of HashMap<usize, Editor>
    agent_views,             \* the keys of HashMap<usize, AgentView>
    next_terminal_id,        \* usize
    next_editor_id,          \* usize
    \* the last creation request: its kind, whether the spawn succeeded, and
    \* the maps and tabs before it
    a_request,
    a_requests               \* the creation requests update has served

app_vars ==
    <<a_pc, pane_root, terminals, editors, agent_views, next_terminal_id,
      next_editor_id, a_request, a_requests>>

VARIABLES
    \* two Terminals side by side
    t_mutex,                 \* per Mutex: who holds it
    t_reader,                \* per session, its reader thread: "read",
                             \* "lock", "process" or "done"
    t_ui,                    \* the call the UI thread is in: [op, s, pc, m,
                             \* todo]
    t_calls                  \* the calls the UI thread has returned from

two_vars == <<t_mutex, t_reader, t_ui, t_calls>>

VARIABLES
    \* one Editor
    editor,                  \* struct Editor
    e_pc,                    \* "off" or "render"
    e_op,                    \* the last step that was an edit, an undo or a
                             \* redo: "none", "insert", "delete", "cut",
                             \* "undo" or "redo"
    e_before,                \* content before that step
    e_events                 \* the events Editor::render has handled

editor_vars == <<editor, e_pc, e_op, e_before, e_events>>

\* The variables of the pure functions and of the host.
more_vars ==
    <<key_vars, color_vars, ids_vars, app_vars, two_vars, editor_vars>>

vars == <<av_vars, delta_vars, term_vars, line_vars, more_vars>>

\* The variables outside the AgentView.
not_av_vars == <<delta_vars, term_vars, line_vars, more_vars>>

\* The variables outside the evaluation of the delta.
not_delta_vars == <<av_vars, term_vars, line_vars, more_vars>>

\* The variables outside the Terminal.
not_term_vars == <<av_vars, delta_vars, line_vars, more_vars>>

\* The variables outside the iteration of parse_new_content.
not_line_vars == <<av_vars, delta_vars, term_vars, more_vars>>

\* The variables outside the key event.
not_key_vars ==
    <<av_vars, delta_vars, term_vars, line_vars, color_vars, ids_vars,
      app_vars, two_vars,
      editor_vars>>

\* The variables outside the colour of a cell.
not_color_vars ==
    <<av_vars, delta_vars, term_vars, line_vars, key_vars, ids_vars,
      app_vars, two_vars,
      editor_vars>>

\* The variables outside the id counters.
not_ids_vars ==
    <<av_vars, delta_vars, term_vars, line_vars, key_vars, color_vars,
      app_vars, two_vars,
      editor_vars>>

\* The variables outside the host.
not_app_vars ==
    <<av_vars, delta_vars, term_vars, line_vars, key_vars, color_vars,
      ids_vars, two_vars,
      editor_vars>>

\* The variables outside the editor.
not_editor_vars ==
    <<av_vars, delta_vars, term_vars, line_vars, key_vars, color_vars,
      ids_vars, app_vars, two_vars>>

\* The variables outside the two Terminals.
not_two_vars ==
    <<av_vars, delta_vars, term_vars, line_vars, key_vars, color_vars,
      ids_vars, app_vars,
      editor_vars>>

\* The characters of the exhaustive part of ScreenTexts.
Alphabet == {"a", SP, NL, PromptGlyph}

RECURSIVE SeqsUpTo(_, _)
\* All sequences over S of length at most n.
SeqsUpTo(S, n) ==
    IF n = 0 THEN {<<>>}
    ELSE LET shorter == SeqsUpTo(S, n - 1)
         IN  shorter \cup {Append(s, c) : s \in shorter, c \in S}

\* Longer screens: a prompt echo, with and without text behind the glyph;
\* two assistant lines; an assistant line and a tool line, in both orders;
\* a line grown by a space and by a letter; a leading blank line; a spinner
\* alone.
SampleScreens ==
    { <<PromptGlyph, SP, "a">>, <<PromptGlyph, "a">>, <<PromptGlyph, SP>>,
      <<"U+280B">>,
      <<"a", NL, "a">>, <<"a", NL, "U+280B">>, <<"U+280B", NL, "a">>,
      <<"a", SP>>, <<"a", "a">>, <<NL, "a">> }

\* Terminal::screen_text(): the texts the screen of the session can show.
ScreenTexts == SeqsUpTo(Alphabet, MaxLen) \cup SampleScreens

\* What input_buf can hold when a frame handles the input line.
InputBufs == {<<>>, <<SP>>, <<SP, "a", SP>>}

\* AgentView::new
AvInit ==
    /\ messages = <<>>
    /\ last_screen_text = <<>>
    /\ accumulating_assistant = FALSE
    /\ show_raw = FALSE
    /\ av_pc = "top"
    /\ av_panicked = FALSE
    /\ frames = 0
    /\ op = "new"
    /\ prev_text = <<>>
    /\ current_text = <<>>
    /\ written = <<>>

\* AgentView::render up to the poll: the raw/chat toggle, then either the raw
\* terminal (and the frame ends) or poll_output on the text of the screen.
RenderTop(clicked, current) ==
    /\ av_pc = "top" /\ ~av_panicked
    /\ frames < MaxFrames
    /\ frames' = frames + 1
    /\ show_raw' = (IF clicked THEN ~show_raw ELSE show_raw)
    /\ written' = <<>>
    /\ IF show_raw'
       THEN /\ op' = "raw"
            /\ UNCHANGED <<messages, last_screen_text, accumulating_assistant,
                           av_pc, av_panicked, prev_text, current_text>>
       ELSE LET r == poll_output(
                       [messages |-> messages,
                        last_screen_text |-> last_screen_text,
                        accumulating_assistant |-> accumulating_assistant],
                       current)
            IN  /\ op' = "poll"
                /\ prev_text' = last_screen_text
                /\ current_text' = current
                /\ messages' = r.messages
                /\ last_screen_text' = r.last_screen_text
                /\ accumulating_assistant' = r.accumulating_assistant
                /\ av_panicked' = r.panic
                /\ av_pc' = IF r.panic THEN "top" ELSE "messages"
    /\ UNCHANGED not_av_vars

\* AgentView::render, the message list: render_tool_message flips collapsed
\* of the Tool message whose header was clicked (clicked = 0: no click).
RenderMessages(clicked) ==
    /\ av_pc = "messages"
    /\ IF clicked = 0
       THEN /\ op' = "noclick"
            /\ UNCHANGED messages
       ELSE /\ clicked \in 1..Len(messages)
            /\ messages[clicked].kind = "Tool"
            /\ op' = "toggle"
            /\ messages' = [messages EXCEPT ![clicked].collapsed = ~@]
    /\ av_pc' = "input"
    /\ UNCHANGED <<last_screen_text, accumulating_assistant, show_raw,
                   av_panicked, frames, prev_text, current_text, written>>
    /\ UNCHANGED not_av_vars

\* Mutant of RenderInput: a submit leaves accumulating_assistant as it was.
RenderInputKeepsBlock(input_buf, enter) ==
    /\ av_pc = "input"
    /\ LET text == trim(input_buf)
       IN  IF enter /\ text # <<>>
           THEN /\ messages' = Append(messages, UserMessage(text))
                /\ written' = text \o <<CR>>
                /\ UNCHANGED accumulating_assistant
                /\ op' = "submit"
           ELSE /\ op' = "noenter"
                /\ UNCHANGED <<messages, written, accumulating_assistant>>
    /\ av_pc' = "top"
    /\ UNCHANGED <<last_screen_text, show_raw, av_panicked, frames, prev_text,
                   current_text>>
    /\ UNCHANGED not_av_vars

\* AgentView::render, the input line: the field input_buf, and on Enter a
\* text that is not empty after trimming is submitted and input_buf cleared.
RenderInput(input_buf, enter) ==
    /\ av_pc = "input"
    /\ LET text == trim(input_buf)
       IN  IF enter /\ text # <<>>
           THEN /\ messages' = Append(messages, UserMessage(text))
                /\ written' = text \o <<CR>>
                /\ accumulating_assistant' = FALSE
                /\ op' = "submit"
           ELSE /\ op' = "noenter"
                /\ UNCHANGED <<messages, written, accumulating_assistant>>
    /\ av_pc' = "top"
    /\ UNCHANGED <<last_screen_text, show_raw, av_panicked, frames, prev_text,
                   current_text>>
    /\ UNCHANGED not_av_vars

\* ------------------------------------------------------ the delta alone

\* The characters of the texts the delta is evaluated on.
DeltaAlphabet == {"a", "b", PromptGlyph}

\* The texts of the delta example of the specification.
DeltaSamples ==
    { <<"a","b","c">>, <<"a","b","c","d","e","f">>, <<"x","y","z","a","b","c">> }

DeltaTexts == SeqsUpTo(DeltaAlphabet, MaxDeltaLen) \cup DeltaSamples

NoResult == [panic |-> FALSE, text |-> <<>>]

\* No evaluation of the delta on its own.
DeltaOff ==
    d_pc = "off" /\ d_last = <<>> /\ d_current = <<>> /\ d_result = NoResult

\* Any two different texts: poll_output has returned before the delta when
\* they are equal.
DeltaInit ==
    /\ d_pc = "call"
    /\ d_last \in DeltaTexts
    /\ d_current \in DeltaTexts
    /\ d_current # d_last
    /\ d_result = NoResult

\* poll_output, the computation of the delta.
ComputeDelta ==
    /\ d_pc = "call"
    /\ d_result' = new_content(d_last, d_current)
    /\ d_pc' = "done"
    /\ UNCHANGED <<d_last, d_current>>
    /\ UNCHANGED not_delta_vars

\* ------------------------------------------------------- one line alone

\* The pieces the lines are put together from: the tool identifiers and the
\* characters the classification looks at.
LineTokens ==
    {tools[i] : i \in 1..Len(tools)}
        \cup {<<"(">>, <<"a">>, <<SP>>, <<PromptGlyph>>, <<"U+280B">>}

RECURSIVE Concats(_, _)
\* The concatenations of at most n members of T.
Concats(T, n) ==
    IF n = 0 THEN {<<>>}
    ELSE LET shorter == Concats(T, n - 1)
         IN  shorter \cup {t \o c : t \in T, c \in shorter}

\* The lines of the examples of the specification, and lines with the other
\* prompt markers.
PlanLine == <<"H","e","r","e",SP,"i","s",SP,"t","h","e",SP,"p","l","a","n",":">>
DoXLine == <<"1",".",SP,"D","o",SP,"X">>
ReadLine == <<"R","e","a","d","(","s","r","c","/","m","a","i","n",".","r","s",")">>
LsLine == <<PromptGlyph,SP,"l","s">>
DollarReadLine == <<"$",SP,"R","e","a","d","(","x",")">>
LineSamples ==
    { PlanLine, DoXLine, ReadLine, LsLine, DollarReadLine,
      <<">",SP,"a">>, <<">">>, <<">",SP>>, <<SP,">",SP,"a",SP>>,
      <<"$",SP,"a">>, <<"$">>, <<"$",SP>>, <<"a","$",SP>>,
      <<"a",">",SP>>, <<"\t","a","\t">> }

LineTexts == Concats(LineTokens, MaxTokens) \cup LineSamples

\* States AgentView reaches between two lines: nothing yet; behind a submit;
\* an open Assistant block; an Assistant block closed by a prompt echo; the
\* first line of the plan read.
LineStates ==
    { ParseState(<<>>, FALSE),
      ParseState(<<UserMessage(<<"a">>)>>, FALSE),
      ParseState(<<AssistantMessage(<<"a">>)>>, TRUE),
      ParseState(<<AssistantMessage(<<"a">>)>>, FALSE),
      ParseState(<<UserMessage(<<"a">>), AssistantMessage(PlanLine)>>, TRUE) }

LineOff ==
    /\ l_pc = "off"
    /\ l_line = <<>>
    /\ l_before = ParseState(<<>>, FALSE)
    /\ l_after = ParseState(<<>>, FALSE)

LineInit ==
    /\ l_pc = "call"
    /\ l_line \in LineTexts
    /\ l_before \in LineStates
    /\ l_after = l_before

\* The body of the loop of parse_new_content, on l_line in state l_before.
ClassifyLine ==
    /\ l_pc = "call"
    /\ l_after' = parse_line(l_before, l_line)
    /\ l_pc' = "done"
    /\ UNCHANGED <<l_line, l_before>>
    /\ UNCHANGED not_line_vars

\* ----------------------------------------------------------- PTY session

\* The size AioApp gives every new Terminal, and the sizes a frame can ask for.
InitialSize == <<24, 80>>
Sizes == {InitialSize, <<10, 40>>}

NothingSeen ==
    [valid |-> FALSE, applied |-> <<>>, partial |-> FALSE, rows |-> 0, cols |-> 0]

\* Terminal::new(rows, cols): the parser of that size, the reader thread
\* spawned and about to read, the child running.
TermInit ==
    /\ rows = InitialSize[1] /\ cols = InitialSize[2]
    /\ parser = [rows |-> InitialSize[1], cols |-> InitialSize[2],
                 applied |-> <<>>, partial |-> FALSE]
    /\ parser_lock = "free"
    /\ parser_poisoned = FALSE
    /\ produced = 0
    /\ child_exited = FALSE
    /\ reader_pc = "read"
    /\ read_result = "none"
    /\ buf = 0
    /\ read_log = <<>>
    /\ skipped = {}
    /\ ui_pc = "idle"
    /\ seen = NothingSeen
    /\ snapshot = NothingSeen
    /\ pty_in = 0
    /\ writer_poisoned = FALSE
    /\ last_write = "none"
    /\ readers_spawned = 1

\* No Terminal.
TermOff ==
    /\ rows = 0 /\ cols = 0
    /\ parser = [rows |-> 0, cols |-> 0, applied |-> <<>>, partial |-> FALSE]
    /\ parser_lock = "free"
    /\ parser_poisoned = FALSE
    /\ produced = 0
    /\ child_exited = FALSE
    /\ reader_pc = "off"
    /\ read_result = "none"
    /\ buf = 0
    /\ read_log = <<>>
    /\ skipped = {}
    /\ ui_pc = "off"
    /\ seen = NothingSeen
    /\ snapshot = NothingSeen
    /\ pty_in = 0
    /\ writer_poisoned = FALSE
    /\ last_write = "none"
    /\ readers_spawned = 0

\* The child writes output: one more chunk for the reader.
ChildWrite ==
    /\ reader_pc # "off"
    /\ ~child_exited
    /\ produced < MaxChunks
    /\ produced' = produced + 1
    /\ UNCHANGED <<rows, cols, parser, parser_lock, parser_poisoned,
                   child_exited, reader_pc, read_result, buf, read_log,
                   skipped, ui_pc, seen, snapshot>>
    /\ UNCHANGED writer_vars
    /\ UNCHANGED readers_spawned
    /\ UNCHANGED not_term_vars

\* The child exits: the stream ends behind what it wrote.
ChildExit ==
    /\ reader_pc # "off"
    /\ ~child_exited
    /\ child_exited' = TRUE
    /\ UNCHANGED <<rows, cols, parser, parser_lock, parser_poisoned, produced,
                   reader_pc, read_result, buf, read_log, skipped, ui_pc, seen,
                   snapshot>>
    /\ UNCHANGED writer_vars
    /\ UNCHANGED readers_spawned
    /\ UNCHANGED not_term_vars

\* reader.read(&mut buf) returns Ok(n), n > 0: the next chunk of the stream.
\* The read blocks while the child runs and has written nothing new.
ReaderReadOk ==
    /\ reader_pc = "read"
    /\ Len(read_log) < produced
    /\ buf' = Len(read_log) + 1
    /\ read_log' = Append(read_log, Len(read_log) + 1)
    /\ read_result' = "ok"
    /\ reader_pc' = "match"
    /\ UNCHANGED <<rows, cols, parser, parser_lock, parser_poisoned, produced,
                   child_exited, skipped, ui_pc, seen, snapshot>>
    /\ UNCHANGED writer_vars
    /\ UNCHANGED readers_spawned
    /\ UNCHANGED not_term_vars

\* reader.read(&mut buf) returns Ok(0): the child has exited and everything
\* it wrote has been read.
ReaderReadEof ==
    /\ reader_pc = "read"
    /\ child_exited /\ Len(read_log) = produced
    /\ read_result' = "eof"
    /\ reader_pc' = "match"
    /\ UNCHANGED <<rows, cols, parser, parser_lock, parser_poisoned, produced,
                   child_exited, buf, read_log, skipped, ui_pc, seen,
                   snapshot>>
    /\ UNCHANGED writer_vars
    /\ UNCHANGED readers_spawned
    /\ UNCHANGED not_term_vars

\* reader.read(&mut buf) returns Err(_).
ReaderReadErr ==
    /\ reader_pc = "read"
    /\ read_result' = "err"
    /\ reader_pc' = "match"
    /\ UNCHANGED <<rows, cols, parser, parser_lock, parser_poisoned, produced,
                   child_exited, buf, read_log, skipped, ui_pc, seen,
                   snapshot>>
    /\ UNCHANGED writer_vars
    /\ UNCHANGED readers_spawned
    /\ UNCHANGED not_term_vars

\* Mutant of ReaderMatch: an error is retried.
ReaderMatchRetries ==
    /\ reader_pc = "match"
    /\ reader_pc' = CASE read_result = "ok" -> "lock"
                      [] read_result = "err" -> "read"
                      [] OTHER -> "done"
    /\ UNCHANGED <<rows, cols, parser, parser_lock, parser_poisoned, produced,
                   child_exited, read_result, buf, read_log, skipped, ui_pc, seen,
                   snapshot>>
    /\ UNCHANGED writer_vars
    /\ UNCHANGED readers_spawned
    /\ UNCHANGED not_term_vars

\* The match on the result of the read: Ok(0) and Err(_) break out of the
\* loop and the thread ends; Ok(n) goes on to the mutex.
ReaderMatch ==
    /\ reader_pc = "match"
    /\ reader_pc' = IF read_result = "ok" THEN "lock" ELSE "done"
    /\ UNCHANGED <<rows, cols, parser, parser_lock, parser_poisoned, produced,
                   child_exited, read_result, buf, read_log, skipped, ui_pc, seen,
                   snapshot>>
    /\ UNCHANGED writer_vars
    /\ UNCHANGED readers_spawned
    /\ UNCHANGED not_term_vars

\* Mutant of ReaderLock: the parser is used without waiting for the mutex.
ReaderLockNoWait ==
    /\ reader_pc = "lock"
    /\ parser_lock' = "reader"
    /\ reader_pc' = "process"
    /\ UNCHANGED <<rows, cols, parser, parser_poisoned, produced, child_exited,
                   read_result, buf, read_log, skipped, ui_pc, seen,
                   snapshot>>
    /\ UNCHANGED writer_vars
    /\ UNCHANGED readers_spawned
    /\ UNCHANGED not_term_vars

\* Mutant of ReaderLock: the result of lock() is unwrapped, and a poisoned
\* mutex ends the thread.
ReaderLockUnwraps ==
    /\ reader_pc = "lock"
    /\ parser_lock = "free"
    /\ IF parser_poisoned
       THEN /\ reader_pc' = "panicked"
            /\ UNCHANGED <<skipped, buf, parser_lock>>
       ELSE /\ parser_lock' = "reader"
            /\ reader_pc' = "process"
            /\ UNCHANGED <<skipped, buf>>
    /\ UNCHANGED <<rows, cols, parser, parser_poisoned, produced, child_exited,
                   read_result, read_log, ui_pc, seen, snapshot>>
    /\ UNCHANGED writer_vars
    /\ UNCHANGED readers_spawned
    /\ UNCHANGED not_term_vars

\* parser_clone.lock(): waits for the mutex; Err on a poisoned one, and the
\* chunk is dropped and the loop goes on.
ReaderLock ==
    /\ reader_pc = "lock"
    /\ parser_lock = "free"
    /\ IF parser_poisoned
       THEN /\ skipped' = skipped \cup {buf}
            /\ buf' = 0
            /\ reader_pc' = "read"
            /\ UNCHANGED parser_lock
       ELSE /\ parser_lock' = "reader"
            /\ reader_pc' = "process"
            /\ UNCHANGED <<skipped, buf>>
    /\ UNCHANGED <<rows, cols, parser, parser_poisoned, produced, child_exited,
                   read_result, read_log, ui_pc, seen, snapshot>>
    /\ UNCHANGED writer_vars
    /\ UNCHANGED readers_spawned
    /\ UNCHANGED not_term_vars

\* p.process(&buf[..n]) has applied a part of the chunk.
ReaderProcessBegin ==
    /\ reader_pc = "process"
    /\ parser' = [parser EXCEPT !.partial = TRUE]
    /\ reader_pc' = "processing"
    /\ UNCHANGED <<rows, cols, parser_lock, parser_poisoned, produced,
                   child_exited, read_result, buf, read_log, skipped, ui_pc, seen,
                   snapshot>>
    /\ UNCHANGED writer_vars
    /\ UNCHANGED readers_spawned
    /\ UNCHANGED not_term_vars

\* Mutant of ReaderProcessEnd: the loop goes back to the mutex with the same
\* buffer instead of reading.
ReaderProcessEndReapplies ==
    /\ reader_pc = "processing"
    /\ parser' = [parser EXCEPT !.applied = Append(@, buf), !.partial = FALSE]
    /\ parser_lock' = "free"
    /\ reader_pc' = "lock"
    /\ UNCHANGED <<rows, cols, parser_poisoned, produced, child_exited,
                   read_result, buf, read_log, skipped, ui_pc, seen,
                   snapshot>>
    /\ UNCHANGED writer_vars
    /\ UNCHANGED readers_spawned
    /\ UNCHANGED not_term_vars

\* p.process(&buf[..n]) returns: the chunk is applied whole, the guard is
\* dropped and the loop reads again.
ReaderProcessEnd ==
    /\ reader_pc = "processing"
    /\ parser' = [parser EXCEPT !.applied = Append(@, buf), !.partial = FALSE]
    /\ parser_lock' = "free"
    /\ buf' = 0
    /\ reader_pc' = "read"
    /\ UNCHANGED <<rows, cols, parser_poisoned, produced, child_exited,
                   read_result, read_log, skipped, ui_pc, seen, snapshot>>
    /\ UNCHANGED writer_vars
    /\ UNCHANGED readers_spawned
    /\ UNCHANGED not_term_vars

\* p.process panics: the thread ends in the middle of the chunk and the
\* mutex is poisoned.
ReaderPanic ==
    /\ reader_pc = "processing"
    /\ parser_lock' = "free"
    /\ parser_poisoned' = TRUE
    /\ reader_pc' = "panicked"
    /\ UNCHANGED <<rows, cols, parser, produced, child_exited, read_result,
                   buf, read_log, skipped, ui_pc, seen, snapshot>>
    /\ UNCHANGED writer_vars
    /\ UNCHANGED readers_spawned
    /\ UNCHANGED not_term_vars

\* Mutant of UiRenderStart: a frame that finds the reader thread ended spawns
\* a new one.
UiRenderStartRespawns(r, c) ==
    /\ ui_pc = "idle"
    /\ IF r # rows \/ c # cols
       THEN rows' = r /\ cols' = c /\ ui_pc' = "resize_lock"
       ELSE UNCHANGED <<rows, cols>> /\ ui_pc' = "render_lock"
    /\ IF reader_pc \in {"done", "panicked"}
       THEN /\ reader_pc' = "read"
            /\ read_result' = "none"
            /\ readers_spawned' = readers_spawned + 1
       ELSE UNCHANGED <<reader_pc, read_result, readers_spawned>>
    /\ UNCHANGED <<parser, parser_lock, parser_poisoned, produced,
                   child_exited, buf, read_log, skipped, seen, snapshot>>
    /\ UNCHANGED writer_vars
    /\ UNCHANGED not_term_vars

\* Mutant of UiRenderStart: resize does not compare, and sets the size anew
\* in every frame.
UiRenderStartAlways(r, c) ==
    /\ ui_pc = "idle"
    /\ rows' = r /\ cols' = c /\ ui_pc' = "resize_lock"
    /\ UNCHANGED <<parser, parser_lock, parser_poisoned, produced,
                   child_exited, reader_pc, read_result, buf, read_log,
                   skipped, seen, snapshot>>
    /\ UNCHANGED writer_vars
    /\ UNCHANGED readers_spawned
    /\ UNCHANGED not_term_vars

\* Terminal::render, its call of resize(r, c): the fields are assigned when
\* they differ, and then the parser is to be resized.
UiRenderStart(r, c) ==
    /\ ui_pc = "idle"
    /\ IF r # rows \/ c # cols
       THEN rows' = r /\ cols' = c /\ ui_pc' = "resize_lock"
       ELSE UNCHANGED <<rows, cols>> /\ ui_pc' = "render_lock"
    /\ UNCHANGED <<parser, parser_lock, parser_poisoned, produced,
                   child_exited, reader_pc, read_result, buf, read_log,
                   skipped, seen, snapshot>>
    /\ UNCHANGED writer_vars
    /\ UNCHANGED readers_spawned
    /\ UNCHANGED not_term_vars

\* Terminal::resize, self.parser.lock(): Err on a poisoned mutex, and the
\* parser is left as it is.
UiResizeLock ==
    /\ ui_pc = "resize_lock"
    /\ parser_lock = "free"
    /\ IF parser_poisoned
       THEN ui_pc' = "render_lock" /\ UNCHANGED parser_lock
       ELSE ui_pc' = "resize_set" /\ parser_lock' = "ui"
    /\ UNCHANGED <<rows, cols, parser, parser_poisoned, produced,
                   child_exited, reader_pc, read_result, buf, read_log,
                   skipped, seen, snapshot>>
    /\ UNCHANGED writer_vars
    /\ UNCHANGED readers_spawned
    /\ UNCHANGED not_term_vars

\* Terminal::resize, p.set_size(rows, cols), and the guard is dropped.
UiResizeSet ==
    /\ ui_pc = "resize_set"
    /\ parser' = [parser EXCEPT !.rows = rows, !.cols = cols]
    /\ parser_lock' = "free"
    /\ ui_pc' = "render_lock"
    /\ UNCHANGED <<rows, cols, parser_poisoned, produced, child_exited,
                   reader_pc, read_result, buf, read_log, skipped, seen,
                   snapshot>>
    /\ UNCHANGED writer_vars
    /\ UNCHANGED readers_spawned
    /\ UNCHANGED not_term_vars

\* Terminal::render, self.parser.lock(): Err on a poisoned mutex, and nothing
\* is valid in this frame.
UiRenderLock ==
    /\ ui_pc = "render_lock"
    /\ parser_lock = "free"
    /\ IF parser_poisoned
       THEN ui_pc' = "idle" /\ UNCHANGED parser_lock
       ELSE ui_pc' = "render_paint" /\ parser_lock' = "ui"
    /\ UNCHANGED <<rows, cols, parser, parser_poisoned, produced,
                   child_exited, reader_pc, read_result, buf, read_log,
                   skipped, seen, snapshot>>
    /\ UNCHANGED writer_vars
    /\ UNCHANGED readers_spawned
    /\ UNCHANGED not_term_vars

\* Terminal::render paints the cells of parser.screen(), and the guard is
\* dropped.
UiRenderPaint ==
    /\ ui_pc = "render_paint"
    /\ seen' = [valid |-> TRUE, applied |-> parser.applied,
                partial |-> parser.partial, rows |-> rows, cols |-> cols]
    /\ parser_lock' = "free"
    /\ ui_pc' = "idle"
    /\ UNCHANGED <<rows, cols, parser, parser_poisoned, produced,
                   child_exited, reader_pc, read_result, buf, read_log, skipped,
                   snapshot>>
    /\ UNCHANGED writer_vars
    /\ UNCHANGED readers_spawned
    /\ UNCHANGED not_term_vars

\* Terminal::screen_text, the lock of the parser: Err on a poisoned mutex,
\* and nothing is read.
UiSnapshotLock ==
    /\ ui_pc = "idle"
    /\ parser_lock = "free"
    /\ IF parser_poisoned
       THEN UNCHANGED <<ui_pc, parser_lock>>
       ELSE ui_pc' = "snapshot_read" /\ parser_lock' = "ui"
    /\ UNCHANGED <<rows, cols, parser, parser_poisoned, produced,
                   child_exited, reader_pc, read_result, buf, read_log,
                   skipped, seen, snapshot>>
    /\ UNCHANGED writer_vars
    /\ UNCHANGED readers_spawned
    /\ UNCHANGED not_term_vars

\* Terminal::screen_text reads the contents of the screen, and the guard is
\* dropped.
UiSnapshotRead ==
    /\ ui_pc = "snapshot_read"
    /\ snapshot' = [valid |-> TRUE, applied |-> parser.applied,
                    partial |-> parser.partial,
                    rows |-> parser.rows, cols |-> parser.cols]
    /\ parser_lock' = "free"
    /\ ui_pc' = "idle"
    /\ UNCHANGED <<rows, cols, parser, parser_poisoned, produced,
                   child_exited, reader_pc, read_result, buf, read_log, skipped,
                   seen>>
    /\ UNCHANGED writer_vars
    /\ UNCHANGED readers_spawned
    /\ UNCHANGED not_term_vars

\* Painting panics: the UI thread ends with the mutex poisoned.
UiPanic ==
    /\ ui_pc = "render_paint"
    /\ parser_lock' = "free"
    /\ parser_poisoned' = TRUE
    /\ ui_pc' = "panicked"
    /\ UNCHANGED <<rows, cols, parser, produced, child_exited, reader_pc,
                   read_result, buf, read_log, skipped, seen, snapshot>>
    /\ UNCHANGED writer_vars
    /\ UNCHANGED readers_spawned
    /\ UNCHANGED not_term_vars

\* Mutant of UiWriteInput: the results are unwrapped, and an error ends the
\* UI thread.
UiWriteInputUnwraps(write_ok) ==
    /\ ui_pc \in {"idle", "render_lock"}
    /\ pty_in < MaxInputs
    /\ IF ~writer_poisoned /\ write_ok
       THEN pty_in' = pty_in + 1 /\ last_write' = "ok" /\ UNCHANGED ui_pc
       ELSE UNCHANGED pty_in /\ last_write' = "err" /\ ui_pc' = "panicked"
    /\ UNCHANGED <<rows, cols, parser, parser_lock, parser_poisoned, produced,
                   child_exited, reader_pc, read_result, buf, read_log,
                   skipped, seen, snapshot, writer_poisoned>>
    /\ UNCHANGED readers_spawned
    /\ UNCHANGED not_term_vars

\* Terminal::write_input, called for the key events of Terminal::render
\* (behind its resize, before its lock of the parser) and by the submit of
\* AgentView: Err of self.writer.lock() on a poisoned mutex and Err of
\* write_all or flush (write_ok = FALSE) are dropped; else the child has the
\* bytes.
UiWriteInput(write_ok) ==
    /\ ui_pc \in {"idle", "render_lock"}
    /\ pty_in < MaxInputs
    /\ IF writer_poisoned
       THEN UNCHANGED pty_in /\ last_write' = "poisoned"
       ELSE IF write_ok
       THEN pty_in' = pty_in + 1 /\ last_write' = "ok"
       ELSE UNCHANGED pty_in /\ last_write' = "err"
    /\ UNCHANGED <<rows, cols, parser, parser_lock, parser_poisoned, produced,
                   child_exited, reader_pc, read_result, buf, read_log,
                   skipped, ui_pc, seen, snapshot, writer_poisoned>>
    /\ UNCHANGED readers_spawned
    /\ UNCHANGED not_term_vars

\* The host drops the Terminal (AioApp::close_active_tab removes it from the
\* registry) between two frames.  Terminal has no Drop of its own: its fields
\* are dropped, the handle of the child among them, and the child is neither
\* killed nor waited for; the reader thread keeps its clone of the parser and
\* its end of the PTY.
DropSession ==
    /\ ui_pc = "idle"
    /\ ui_pc' = "dropped"
    /\ UNCHANGED <<rows, cols, parser, parser_lock, parser_poisoned, produced,
                   child_exited, reader_pc, read_result, buf, read_log,
                   skipped, seen, snapshot>>
    /\ UNCHANGED writer_vars
    /\ UNCHANGED readers_spawned
    /\ UNCHANGED not_term_vars

\* The steps the reader thread takes when it can: a read returns when there
\* is something to return, and the code behind it runs.  An error of the
\* read and a panic are not its to choose.
ReaderStep ==
    \/ ReaderReadOk
    \/ ReaderReadEof
    \/ ReaderMatch
    \/ ReaderLock
    \/ ReaderProcessBegin
    \/ ReaderProcessEnd

\* ------------------------------------------------------------ key events

\* Keys of egui::Key: the letters, the keys key_to_escape names, and others.
Letters ==
    <<"A","B","C","D","E","F","G","H","I","J","K","L","M",
      "N","O","P","Q","R","S","T","U","V","W","X","Y","Z">>
NamedKeys ==
    {"Enter", "Tab", "Backspace", "Escape", "ArrowUp", "ArrowDown",
     "ArrowRight", "ArrowLeft", "Home", "End", "PageUp", "PageDown", "Delete"}
OtherKeys == {"Space", "Insert", "F1", "Num0", "Minus"}
Keys == {Letters[i] : i \in 1..Len(Letters)} \cup NamedKeys \cup OtherKeys

\* egui::Modifiers, the flags a keyboard sets.
Modifiers == [ctrl : BOOLEAN, shift : BOOLEAN, alt : BOOLEAN]

\* Mutant of key_to_escape: the first match is not there.
key_to_escape_no_ctrl(key, modifiers) ==
    CASE key = "Enter" -> <<13>>
      [] key = "Tab" -> <<9>>
      [] key = "Backspace" -> <<127>>
      [] key = "Escape" -> <<27>>
      [] key = "ArrowUp" -> <<27, 91, 65>>
      [] key = "ArrowDown" -> <<27, 91, 66>>
      [] key = "ArrowRight" -> <<27, 91, 67>>
      [] key = "ArrowLeft" -> <<27, 91, 68>>
      [] key = "Home" -> <<27, 91, 72>>
      [] key = "End" -> <<27, 91, 70>>
      [] key = "PageUp" -> <<27, 91, 53, 126>>
      [] key = "PageDown" -> <<27, 91, 54, 126>>
      [] key = "Delete" -> <<27, 91, 51, 126>>
      [] OTHER -> <<>>

\* Mutant of key_to_escape: with ctrl down the first match decides alone.
key_to_escape_ctrl_decides(key, modifiers) ==
    IF modifiers.ctrl
    THEN CASE key = "C" -> <<3>>
           [] key = "D" -> <<4>>
           [] key = "Z" -> <<26>>
           [] key = "L" -> <<12>>
           [] key = "A" -> <<1>>
           [] key = "E" -> <<5>>
           [] key = "K" -> <<11>>
           [] key = "U" -> <<21>>
           [] key = "W" -> <<23>>
           [] OTHER -> <<>>
    ELSE key_to_escape_no_ctrl(key, modifiers)

\* key_to_escape: with ctrl down the first match returns for nine letters and
\* falls through for every other key; the second match looks at the key only.
\* b"\x1b[A" is ESC, "[", "A" in ASCII.
key_to_escape(key, modifiers) ==
    IF modifiers.ctrl /\ key \in {"C", "D", "Z", "L", "A", "E", "K", "U", "W"}
    THEN CASE key = "C" -> <<3>>
           [] key = "D" -> <<4>>
           [] key = "Z" -> <<26>>
           [] key = "L" -> <<12>>
           [] key = "A" -> <<1>>
           [] key = "E" -> <<5>>
           [] key = "K" -> <<11>>
           [] key = "U" -> <<21>>
           [] key = "W" -> <<23>>
    ELSE CASE key = "Enter" -> <<13>>
           [] key = "Tab" -> <<9>>
           [] key = "Backspace" -> <<127>>
           [] key = "Escape" -> <<27>>
           [] key = "ArrowUp" -> <<27, 91, 65>>
           [] key = "ArrowDown" -> <<27, 91, 66>>
           [] key = "ArrowRight" -> <<27, 91, 67>>
           [] key = "ArrowLeft" -> <<27, 91, 68>>
           [] key = "Home" -> <<27, 91, 72>>
           [] key = "End" -> <<27, 91, 70>>
           [] key = "PageUp" -> <<27, 91, 53, 126>>
           [] key = "PageDown" -> <<27, 91, 54, 126>>
           [] key = "Delete" -> <<27, 91, 51, 126>>
           [] OTHER -> <<>>

KeyOff ==
    /\ k_pc = "off"
    /\ k_key = "Enter"
    /\ k_modifiers = [ctrl |-> FALSE, shift |-> FALSE, alt |-> FALSE]
    /\ k_seq = <<>>
    /\ k_writes = 0

KeyInit ==
    /\ k_pc = "call"
    /\ k_key \in Keys
    /\ k_modifiers \in Modifiers
    /\ k_seq = <<>>
    /\ k_writes = 0

\* Terminal::render on one key press: the sequence of key_to_escape goes to
\* write_input when it is not empty.
KeyEvent ==
    /\ k_pc = "call"
    /\ k_seq' = key_to_escape(k_key, k_modifiers)
    /\ k_writes' = (IF k_seq' # <<>> THEN 1 ELSE 0)
    /\ k_pc' = "done"
    /\ UNCHANGED <<k_key, k_modifiers>>
    /\ UNCHANGED not_key_vars

\* ---------------------------------------------------------------- colours

\* Color32::from_rgb on the values the u8 arithmetic gave: a value outside
\* 0..255 wraps in a release build (a debug build panics), and overflow says so.
Color32(r, g, b) ==
    [r |-> r % 256, g |-> g % 256, b |-> b % 256,
     overflow |-> \E v \in {r, g, b} : v \notin 0..255]

\* theme::TERMINAL_BG
TERMINAL_BG == Color32(255, 255, 255)

\* const BASIC of ansi_256_to_color32
BASIC ==
    << <<0, 0, 0>>, <<205, 49, 49>>, <<13, 188, 121>>, <<229, 229, 16>>,
       <<36, 114, 200>>, <<188, 63, 188>>, <<17, 168, 205>>, <<229, 229, 229>>,
       <<102, 102, 102>>, <<241, 76, 76>>, <<35, 209, 139>>, <<245, 245, 67>>,
       <<59, 142, 234>>, <<214, 112, 214>>, <<41, 184, 219>>, <<255, 255, 255>> >>

\* The closure to_val of ansi_256_to_color32.
to_val(v) == IF v = 0 THEN 0 ELSE 55 + 40 * v

\* Mutant of ansi_256_to_color32: the gray ramp has steps of 11.
ansi_256_to_color32_steps_of_11(idx) ==
    IF idx < 16
    THEN LET c == BASIC[idx + 1] IN Color32(c[1], c[2], c[3])
    ELSE IF idx < 232
    THEN LET i == idx - 16
             r == (i \div 36) % 6
             g == (i \div 6) % 6
             b == i % 6
         IN  Color32(to_val(r), to_val(g), to_val(b))
    ELSE LET v == 8 + 11 * (idx - 232) IN Color32(v, v, v)

\* ansi_256_to_color32(idx: u8)
ansi_256_to_color32(idx) ==
    IF idx < 16
    THEN LET c == BASIC[idx + 1] IN Color32(c[1], c[2], c[3])
    ELSE IF idx < 232
    THEN LET i == idx - 16
             r == (i \div 36) % 6
             g == (i \div 6) % 6
             b == i % 6
         IN  Color32(to_val(r), to_val(g), to_val(b))
    ELSE LET v == 8 + 10 * (idx - 232) IN Color32(v, v, v)

\* vt100_color_to_egui(color, is_fg)
vt100_color_to_egui(color, is_fg) ==
    CASE color.tag = "Default" ->
            IF is_fg THEN Color32(36, 36, 36) ELSE TERMINAL_BG
      [] color.tag = "Idx" -> ansi_256_to_color32(color.i)
      [] color.tag = "Rgb" -> Color32(color.r, color.g, color.b)

\* vt100::Color: Default, every Idx(u8), and Rgb over some values of u8.
RgbValues == {0, 1, 128, 255}
Colors ==
    {[tag |-> "Default"]}
      \cup {[tag |-> "Idx", i |-> i] : i \in 0..255}
      \cup {[tag |-> "Rgb", r |-> r, g |-> g, b |-> b] :
               r \in RgbValues, g \in RgbValues, b \in RgbValues}

ColorOff ==
    /\ c_pc = "off"
    /\ c_color = [tag |-> "Default"]
    /\ c_is_fg = FALSE
    /\ c_result = Color32(0, 0, 0)

ColorInit ==
    /\ c_pc = "call"
    /\ c_color \in Colors
    /\ c_is_fg \in BOOLEAN
    /\ c_result = Color32(0, 0, 0)

\* Terminal::render on one cell: the colour of its foreground or background.
ResolveColor ==
    /\ c_pc = "call"
    /\ c_result' = vt100_color_to_egui(c_color, c_is_fg)
    /\ c_pc' = "done"
    /\ UNCHANGED <<c_color, c_is_fg>>
    /\ UNCHANGED not_color_vars

\* ------------------------------------------------------------------- ids

\* Threads that call Terminal::new and AgentView::new.
Creators == {1, 2}

IdsOff ==
    /\ NEXT_TERM_ID = 0
    /\ NEXT_AV_ID = 0
    /\ i_pc = [t \in Creators |-> "off"]
    /\ i_kind = [t \in Creators |-> "terminal"]
    /\ i_assigned = <<>>
    /\ i_live = {}

\* The statics at the start of the process.
IdsInit ==
    /\ NEXT_TERM_ID = 0
    /\ NEXT_AV_ID = 0
    /\ i_pc = [t \in Creators |-> "idle"]
    /\ i_kind = [t \in Creators |-> "terminal"]
    /\ i_assigned = <<>>
    /\ i_live = {}

\* The ids given and asked for so far.
IdsInFlight ==
    Len(i_assigned) + Cardinality({t \in Creators : i_pc[t] # "idle"})

\* Terminal::new up to the spawn of the reader: openpty, spawn_command,
\* try_clone_reader and take_writer return early with ? when they fail, and
\* no id is taken then. kind says whether an AgentView will hold the Terminal.
IdSpawn(t, kind, ok) ==
    /\ i_pc[t] = "idle"
    /\ IdsInFlight < MaxSessions
    /\ i_kind' = [i_kind EXCEPT ![t] = kind]
    /\ i_pc' = [i_pc EXCEPT ![t] = IF ok THEN "spawned" ELSE "idle"]
    /\ UNCHANGED <<NEXT_TERM_ID, NEXT_AV_ID, i_assigned, i_live>>
    /\ UNCHANGED not_ids_vars

\* Mutant of IdTerminal: the id is the number of Terminals alive.
IdTerminalCountsLive(t) ==
    /\ i_pc[t] = "spawned"
    /\ LET id == Cardinality({n \in i_live : i_assigned[n].kind = "terminal"})
       IN  /\ i_assigned' = Append(i_assigned, [kind |-> "terminal", id |-> id])
           /\ i_live' = i_live \cup {Len(i_assigned) + 1}
    /\ i_pc' = [i_pc EXCEPT ![t] = IF i_kind[t] = "agent" THEN "view" ELSE "idle"]
    /\ UNCHANGED <<NEXT_TERM_ID, NEXT_AV_ID, i_kind>>
    /\ UNCHANGED not_ids_vars

\* Terminal::new, NEXT_TERM_ID.fetch_add(1, Relaxed): one atomic
\* read-modify-write, which returns the value before it.
IdTerminal(t) ==
    /\ i_pc[t] = "spawned"
    /\ LET id == NEXT_TERM_ID
       IN  /\ NEXT_TERM_ID' = NEXT_TERM_ID + 1
           /\ i_assigned' = Append(i_assigned, [kind |-> "terminal", id |-> id])
           /\ i_live' = i_live \cup {Len(i_assigned) + 1}
    /\ i_pc' = [i_pc EXCEPT ![t] = IF i_kind[t] = "agent" THEN "view" ELSE "idle"]
    /\ UNCHANGED <<NEXT_AV_ID, i_kind>>
    /\ UNCHANGED not_ids_vars

\* AgentView::new(terminal), NEXT_AV_ID.fetch_add(1, Relaxed).
IdView(t) ==
    /\ i_pc[t] = "view"
    /\ LET id == NEXT_AV_ID
       IN  /\ NEXT_AV_ID' = NEXT_AV_ID + 1
           /\ i_assigned' = Append(i_assigned, [kind |-> "view", id |-> id])
           /\ i_live' = i_live \cup {Len(i_assigned) + 1}
    /\ i_pc' = [i_pc EXCEPT ![t] = "idle"]
    /\ UNCHANGED <<NEXT_TERM_ID, i_kind>>
    /\ UNCHANGED not_ids_vars

\* AioApp::close_active_tab removes a Terminal or an AgentView from its map
\* and drops it; no counter is touched.
IdDrop(n) ==
    /\ n \in i_live
    /\ i_live' = i_live \ {n}
    /\ UNCHANGED <<NEXT_TERM_ID, NEXT_AV_ID, i_pc, i_kind, i_assigned>>
    /\ UNCHANGED not_ids_vars

\* ------------------------------------------------------------------ host

\* enum TabContent; FileTree holds no id.
TabContent(kind, id) == [kind |-> kind, id |-> id]
FileTreeTab == TabContent("FileTree", 0)

\* enum PaneNode and struct LeafPane; active_tab counts from 0.
Leaf(leaf_tabs, active_tab) ==
    [node |-> "Leaf", tabs |-> leaf_tabs, active_tab |-> active_tab]
HSplit(left, right) == [node |-> "HSplit", left |-> left, right |-> right]
VSplit(top, bottom) == [node |-> "VSplit", top |-> top, bottom |-> bottom]

\* The layout of AioApp::new.
Layout ==
    HSplit(Leaf(<<FileTreeTab>>, 0),
           HSplit(VSplit(Leaf(<<TabContent("Terminal", 0)>>, 0),
                         Leaf(<<TabContent("Terminal", 1)>>, 0)),
                  Leaf(<<TabContent("Terminal", 2)>>, 0)))

RECURSIVE leaves(_)
\* The leaves of a tree in the order render_pane_tree draws them.
leaves(node) ==
    CASE node.node = "Leaf" -> <<node>>
      [] node.node = "HSplit" -> leaves(node.left) \o leaves(node.right)
      [] node.node = "VSplit" -> leaves(node.top) \o leaves(node.bottom)

\* The TabContent values in the leaves of pane_root.
tabs ==
    UNION {{l.tabs[i] : i \in 1..Len(l.tabs)} :
              l \in {leaves(pane_root)[k] : k \in 1..Len(leaves(pane_root))}}

\* leaf.tabs.push(content); leaf.active_tab = leaf.tabs.len() - 1
push_tab(leaf, content) == Leaf(Append(leaf.tabs, content), Len(leaf.tabs))

RECURSIVE try_add_tab(_, _)
\* AioApp::try_add_tab: the right child before the left, the top before the
\* bottom, and no leaf whose first tab is the file tree.
try_add_tab(node, content) ==
    CASE node.node = "Leaf" ->
            IF ~(node.tabs # <<>> /\ node.tabs[1].kind = "FileTree")
            THEN [added |-> TRUE, node |-> push_tab(node, content)]
            ELSE [added |-> FALSE, node |-> node]
      [] node.node = "HSplit" ->
            LET r == try_add_tab(node.right, content)
                l == try_add_tab(node.left, content)
            IN  IF r.added
                THEN [added |-> TRUE, node |-> HSplit(node.left, r.node)]
                ELSE [added |-> l.added, node |-> HSplit(l.node, node.right)]
      [] node.node = "VSplit" ->
            LET t == try_add_tab(node.top, content)
                b == try_add_tab(node.bottom, content)
            IN  IF t.added
                THEN [added |-> TRUE, node |-> VSplit(t.node, node.bottom)]
                ELSE [added |-> b.added, node |-> VSplit(node.top, b.node)]

RECURSIVE force_add_tab(_, _)
\* AioApp::force_add_tab
force_add_tab(node, content) ==
    CASE node.node = "Leaf" -> push_tab(node, content)
      [] node.node = "HSplit" ->
            HSplit(force_add_tab(node.left, content), node.right)
      [] node.node = "VSplit" ->
            VSplit(force_add_tab(node.top, content), node.bottom)

\* AioApp::add_tab_to_pane
add_tab_to_pane(node, content) ==
    LET r == try_add_tab(node, content)
    IN  IF r.added THEN r.node ELSE force_add_tab(node, content)

RECURSIVE add_tab_to_rightmost(_, _)
\* AioApp::add_tab_to_rightmost
add_tab_to_rightmost(node, content) ==
    CASE node.node = "Leaf" -> push_tab(node, content)
      [] node.node = "HSplit" ->
            HSplit(node.left, add_tab_to_rightmost(node.right, content))
      [] node.node = "VSplit" ->
            VSplit(add_tab_to_rightmost(node.top, content), node.bottom)

\* Vec::remove(index) on a sequence; index counts from 0.
remove_at(seq, index) ==
    SubSeq(seq, 1, index) \o SubSeq(seq, index + 2, Len(seq))

\* Mutant of close_in_leaf: active_tab stays as it was.
close_in_leaf_keeps_active(leaf) ==
    IF Len(leaf.tabs) > 1
    THEN IF leaf.active_tab >= Len(leaf.tabs)
         THEN [node |-> leaf, removed |-> <<>>, panic |-> TRUE]
         ELSE [node |-> Leaf(remove_at(leaf.tabs, leaf.active_tab),
                             leaf.active_tab),
               removed |-> <<leaf.tabs[leaf.active_tab + 1]>>,
               panic |-> FALSE]
    ELSE IF Len(leaf.tabs) = 1
    THEN [node |-> leaf, removed |-> <<leaf.tabs[1]>>, panic |-> FALSE]
    ELSE [node |-> leaf, removed |-> <<>>, panic |-> FALSE]

\* AioApp::close_active_tab, the Leaf arm: with more than one tab the active
\* one is removed (Vec::remove panics on an index out of range) and
\* active_tab is pulled back into range; the only tab of a leaf stays in the
\* leaf. removed is the tab whose map entry goes, in both branches.
close_in_leaf(leaf) ==
    IF Len(leaf.tabs) > 1
    THEN IF leaf.active_tab >= Len(leaf.tabs)
         THEN [node |-> leaf, removed |-> <<>>, panic |-> TRUE]
         ELSE LET rest == remove_at(leaf.tabs, leaf.active_tab)
              IN  [node |-> Leaf(rest,
                                 IF leaf.active_tab >= Len(rest)
                                 THEN IF Len(rest) = 0 THEN 0 ELSE Len(rest) - 1
                                 ELSE leaf.active_tab),
                   removed |-> <<leaf.tabs[leaf.active_tab + 1]>>,
                   panic |-> FALSE]
    ELSE IF Len(leaf.tabs) = 1
    THEN [node |-> leaf, removed |-> <<leaf.tabs[1]>>, panic |-> FALSE]
    ELSE [node |-> leaf, removed |-> <<>>, panic |-> FALSE]

RECURSIVE close_active_tab(_)
\* AioApp::close_active_tab: the leaf reached by right children and top
\* children.
close_active_tab(node) ==
    CASE node.node = "Leaf" -> close_in_leaf(node)
      [] node.node = "HSplit" ->
            LET r == close_active_tab(node.right)
            IN  [r EXCEPT !.node = HSplit(node.left, r.node)]
      [] node.node = "VSplit" ->
            LET t == close_active_tab(node.top)
            IN  [t EXCEPT !.node = VSplit(t.node, node.bottom)]

RECURSIVE focus_tab(_, _)
\* AioApp::focus_tab: the first tab equal to target, left before right and
\* top before bottom, becomes the active one of its leaf.
focus_tab(node, target) ==
    CASE node.node = "Leaf" ->
            LET hits == {i \in 1..Len(node.tabs) : node.tabs[i] = target}
            IN  IF hits = {}
                THEN [found |-> FALSE, node |-> node]
                ELSE [found |-> TRUE,
                      node |-> Leaf(node.tabs,
                                    (CHOOSE i \in hits :
                                        \A j \in hits : i <= j) - 1)]
      [] node.node = "HSplit" ->
            LET l == focus_tab(node.left, target)
                r == focus_tab(node.right, target)
            IN  IF l.found
                THEN [found |-> TRUE, node |-> HSplit(l.node, node.right)]
                ELSE [found |-> r.found, node |-> HSplit(node.left, r.node)]
      [] node.node = "VSplit" ->
            LET t == focus_tab(node.top, target)
                b == focus_tab(node.bottom, target)
            IN  IF t.found
                THEN [found |-> TRUE, node |-> VSplit(t.node, node.bottom)]
                ELSE [found |-> b.found, node |-> VSplit(node.top, b.node)]

RECURSIVE click_tab(_, _, _)
\* draw_tab_bar_with_editors on the k-th leaf drawn, with a click on its tab
\* i: leaf.active_tab = i.
click_tab(node, k, i) ==
    CASE node.node = "Leaf" ->
            IF k = 1 THEN Leaf(node.tabs, i) ELSE node
      [] node.node = "HSplit" ->
            LET n == Len(leaves(node.left))
            IN  IF k <= n
                THEN HSplit(click_tab(node.left, k, i), node.right)
                ELSE HSplit(node.left, click_tab(node.right, k - n, i))
      [] node.node = "VSplit" ->
            LET n == Len(leaves(node.top))
            IN  IF k <= n
                THEN VSplit(click_tab(node.top, k, i), node.bottom)
                ELSE VSplit(node.top, click_tab(node.bottom, k - n, i))

\* update behind a new tab: pending_focus.take() and focus_tab.
focus_pending(node, target) == focus_tab(node, target).node

\* No creation request in the last step.
NoRequest ==
    [kind |-> "none", ok |-> TRUE, terminals |-> {}, agent_views |-> {},
     tabs |-> {}]

\* The creation request of kind kind whose spawn returned ok, in this state.
Request(kind, ok) ==
    [kind |-> kind, ok |-> ok, terminals |-> terminals,
     agent_views |-> agent_views, tabs |-> tabs]

AppOff ==
    /\ a_pc = "off"
    /\ pane_root = Leaf(<<>>, 0)
    /\ terminals = {}
    /\ editors = {}
    /\ agent_views = {}
    /\ next_terminal_id = 0
    /\ next_editor_id = 0
    /\ a_request = NoRequest
    /\ a_requests = 0

\* main: run_native calls AioApp::new; no pane tree is built yet.
AppInit ==
    /\ a_pc = "new0"
    /\ pane_root = Leaf(<<>>, 0)
    /\ terminals = {}
    /\ editors = {}
    /\ agent_views = {}
    /\ next_terminal_id = 0
    /\ next_editor_id = 0
    /\ a_request = NoRequest
    /\ a_requests = 0

\* AioApp::new, one of the three Terminal::new(24, 80).expect(..): expect
\* panics on Err. Behind the third the layout gets its three tabs and
\* next_terminal_id is 3.
AppNewTerminal(ok) ==
    /\ a_pc \in {"new0", "new1", "new2"}
    /\ a_request' = Request("initial", ok)
    /\ IF ~ok
       THEN /\ a_pc' = "panicked"
            /\ UNCHANGED <<terminals, pane_root, next_terminal_id>>
       ELSE CASE a_pc = "new0" ->
                   /\ terminals' = terminals \cup {0}
                   /\ a_pc' = "new1"
                   /\ UNCHANGED <<pane_root, next_terminal_id>>
              [] a_pc = "new1" ->
                   /\ terminals' = terminals \cup {1}
                   /\ a_pc' = "new2"
                   /\ UNCHANGED <<pane_root, next_terminal_id>>
              [] a_pc = "new2" ->
                   /\ terminals' = terminals \cup {2}
                   /\ pane_root' = Layout
                   /\ next_terminal_id' = 3
                   /\ a_pc' = "running"
    /\ UNCHANGED <<editors, agent_views, next_editor_id, a_requests>>
    /\ UNCHANGED not_app_vars

\* AioApp::update, new_terminal_requested: the key is taken first, and the
\* Terminal and its tab are added only if let Ok.
AppRequestTerminal(ok) ==
    /\ a_pc = "running"
    /\ a_requests < MaxRequests
    /\ a_requests' = a_requests + 1
    /\ a_request' = Request("Terminal", ok)
    /\ next_terminal_id' = next_terminal_id + 1
    /\ IF ok
       THEN LET tab == TabContent("Terminal", next_terminal_id)
            IN  /\ terminals' = terminals \cup {next_terminal_id}
                /\ pane_root' = focus_pending(add_tab_to_pane(pane_root, tab), tab)
       ELSE UNCHANGED <<terminals, pane_root>>
    /\ UNCHANGED <<a_pc, editors, agent_views, next_editor_id>>
    /\ UNCHANGED not_app_vars

\* AioApp::update, new_claude_requested and new_codex_requested: ok is the
\* Result of Terminal::with_command.
AppRequestAgent(kind, ok) ==
    /\ a_pc = "running"
    /\ a_requests < MaxRequests
    /\ a_requests' = a_requests + 1
    /\ a_request' = Request(kind, ok)
    /\ next_terminal_id' = next_terminal_id + 1
    /\ IF ok
       THEN LET tab == TabContent(kind, next_terminal_id)
            IN  /\ agent_views' = agent_views \cup {next_terminal_id}
                /\ pane_root' =
                      focus_pending(add_tab_to_rightmost(pane_root, tab), tab)
       ELSE UNCHANGED <<agent_views, pane_root>>
    /\ UNCHANGED <<a_pc, terminals, editors, next_editor_id>>
    /\ UNCHANGED not_app_vars

\* AioApp::update, new_file_requested: Editor::new_empty does not fail.
AppNewFile ==
    /\ a_pc = "running"
    /\ a_requests < MaxRequests
    /\ a_requests' = a_requests + 1
    /\ a_request' = NoRequest
    /\ next_editor_id' = next_editor_id + 1
    /\ LET tab == TabContent("Editor", next_editor_id)
       IN  /\ editors' = editors \cup {next_editor_id}
           /\ pane_root' = focus_pending(add_tab_to_pane(pane_root, tab), tab)
    /\ UNCHANGED <<a_pc, terminals, agent_views, next_terminal_id>>
    /\ UNCHANGED not_app_vars

\* AioApp::open_file_in_editor on a path no editor holds: ok is the Result of
\* Editor::open_file.
AppOpenFile(ok) ==
    /\ a_pc = "running"
    /\ a_requests < MaxRequests
    /\ a_requests' = a_requests + 1
    /\ a_request' = NoRequest
    /\ next_editor_id' = next_editor_id + 1
    /\ IF ok
       THEN LET tab == TabContent("Editor", next_editor_id)
            IN  /\ editors' = editors \cup {next_editor_id}
                /\ pane_root' = add_tab_to_pane(pane_root, tab)
       ELSE UNCHANGED <<editors, pane_root>>
    /\ UNCHANGED <<a_pc, terminals, agent_views, next_terminal_id>>
    /\ UNCHANGED not_app_vars

\* AioApp::open_file_in_editor on the path of the editor id, and the
\* focus_tab of the next update.
AppOpenFileAgain(id) ==
    /\ a_pc = "running"
    /\ id \in editors
    /\ a_request' = NoRequest
    /\ pane_root' = focus_pending(pane_root, TabContent("Editor", id))
    /\ UNCHANGED <<a_pc, terminals, editors, agent_views, next_terminal_id,
                   next_editor_id, a_requests>>
    /\ UNCHANGED not_app_vars

\* AioApp::update, close_tab_requested: close_active_tab and the removal of
\* the map entry of the tab it picked.
AppCloseTab ==
    /\ a_pc = "running"
    /\ a_request' = NoRequest
    /\ LET r == close_active_tab(pane_root)
           kinds == {r.removed[i].kind : i \in 1..Len(r.removed)}
           ids == {r.removed[i].id : i \in 1..Len(r.removed)}
       IN  /\ a_pc' = (IF r.panic THEN "panicked" ELSE "running")
           /\ pane_root' = r.node
           /\ terminals' =
                 (IF "Terminal" \in kinds THEN terminals \ ids ELSE terminals)
           /\ agent_views' =
                 (IF kinds \cap {"ClaudeCode", "Codex"} # {}
                  THEN agent_views \ ids ELSE agent_views)
           /\ editors' = (IF "Editor" \in kinds THEN editors \ ids ELSE editors)
    /\ UNCHANGED <<next_terminal_id, next_editor_id, a_requests>>
    /\ UNCHANGED not_app_vars

\* render_pane_tree, a click on tab i of the k-th leaf.
AppTabClick(k, i) ==
    /\ a_pc = "running"
    /\ a_request' = NoRequest
    /\ pane_root' = click_tab(pane_root, k, i)
    /\ UNCHANGED <<a_pc, terminals, editors, agent_views, next_terminal_id,
                   next_editor_id, a_requests>>
    /\ UNCHANGED not_app_vars

\* ---------------------------------------------------------- two sessions

\* Two Terminals of one process.
Sessions == {1, 2}

\* Mutant of parser_of: one Mutex, a static, for the parsers of all sessions.
parser_of_static(s) == <<"parser", 1>>

\* The Mutex Terminal::new made for the parser of session s: a new
\* Arc<Mutex<vt100::Parser>> on every call.
parser_of(s) == <<"parser", s>>

\* The Mutex Terminal::new made for the writer of session s.
writer_of(s) == <<"writer", s>>

\* Who holds a Mutex: nobody, the UI thread, or the reader of session s.
NoHolder == <<"free", 0>>
UiHolder == <<"ui", 0>>

Mutexes == {parser_of(s) : s \in Sessions} \cup {writer_of(s) : s \in Sessions}

\* The UI thread is in no call of a Terminal.
UiIdle ==
    [op |-> "none", s |-> 1, pc |-> "idle", m |-> writer_of(1), todo |-> <<>>]

\* A step of a call on a Mutex: lock() and the drop of the guard.
LockStep(m) == [act |-> "lock", m |-> m]
DropStep(m) == [act |-> "drop", m |-> m]

\* Mutant of call_steps: render handles the key events inside the block that
\* holds the parser.
call_steps_keys_under_parser(call, s, resized, keys) ==
    CASE call = "write_input" ->
            <<LockStep(writer_of(s)), DropStep(writer_of(s))>>
      [] call = "resize" ->
            <<LockStep(parser_of(s)), DropStep(parser_of(s))>>
      [] call = "render" ->
            (IF resized
             THEN <<LockStep(parser_of(s)), DropStep(parser_of(s))>>
             ELSE <<>>)
            \o <<LockStep(parser_of(s))>>
            \o (IF keys = 1
                THEN <<LockStep(writer_of(s)), DropStep(writer_of(s))>>
                ELSE <<>>)
            \o <<DropStep(parser_of(s))>>

\* The locks a call takes and drops, in the order of its code: write_input
\* the writer; resize, with another size, the parser; render first resize
\* (when the size changed), then write_input for a key event, then the parser
\* for the cells.
call_steps(call, s, resized, keys) ==
    CASE call = "write_input" ->
            <<LockStep(writer_of(s)), DropStep(writer_of(s))>>
      [] call = "resize" ->
            <<LockStep(parser_of(s)), DropStep(parser_of(s))>>
      [] call = "render" ->
            (IF resized
             THEN <<LockStep(parser_of(s)), DropStep(parser_of(s))>>
             ELSE <<>>)
            \o (IF keys = 1
                THEN <<LockStep(writer_of(s)), DropStep(writer_of(s))>>
                ELSE <<>>)
            \o <<LockStep(parser_of(s)), DropStep(parser_of(s))>>

TwoOff ==
    /\ t_mutex = [m \in Mutexes |-> NoHolder]
    /\ t_reader = [s \in Sessions |-> "off"]
    /\ t_ui = UiIdle
    /\ t_calls = 0

\* Two calls of Terminal::new have returned: each reader is in its first read.
TwoInit ==
    /\ t_mutex = [m \in Mutexes |-> NoHolder]
    /\ t_reader = [s \in Sessions |-> "read"]
    /\ t_ui = UiIdle
    /\ t_calls = 0

\* The reader of s, reader.read: Ok(n) when the child of s has written.
TwoReaderReadOk(s) ==
    /\ t_reader[s] = "read"
    /\ t_reader' = [t_reader EXCEPT ![s] = "lock"]
    /\ UNCHANGED <<t_mutex, t_ui, t_calls>>
    /\ UNCHANGED not_two_vars

\* The reader of s, reader.read: Ok(0) or Err.
TwoReaderReadEnd(s) ==
    /\ t_reader[s] = "read"
    /\ t_reader' = [t_reader EXCEPT ![s] = "done"]
    /\ UNCHANGED <<t_mutex, t_ui, t_calls>>
    /\ UNCHANGED not_two_vars

\* The reader of s, parser_clone.lock(): it waits until the Mutex is free.
TwoReaderLock(s) ==
    /\ t_reader[s] = "lock"
    /\ t_mutex[parser_of(s)] = NoHolder
    /\ t_mutex' = [t_mutex EXCEPT ![parser_of(s)] = <<"reader", s>>]
    /\ t_reader' = [t_reader EXCEPT ![s] = "process"]
    /\ UNCHANGED <<t_ui, t_calls>>
    /\ UNCHANGED not_two_vars

\* The reader of s, behind p.process: the guard is dropped.
TwoReaderProcess(s) ==
    /\ t_reader[s] = "process"
    /\ t_mutex' = [t_mutex EXCEPT ![parser_of(s)] = NoHolder]
    /\ t_reader' = [t_reader EXCEPT ![s] = "read"]
    /\ UNCHANGED <<t_ui, t_calls>>
    /\ UNCHANGED not_two_vars

\* The UI thread calls write_input, resize with another size, or render on
\* session s, and comes to the first lock() of the call.
TwoUiCall(call, s) ==
    /\ t_ui.pc = "idle"
    /\ t_calls < MaxCalls
    /\ \E resized \in BOOLEAN, keys \in 0..1 :
          LET steps == call_steps(call, s, resized, keys)
          IN  t_ui' = [op |-> call, s |-> s, pc |-> "wait",
                      m |-> steps[1].m, todo |-> Tail(steps)]
    /\ UNCHANGED <<t_mutex, t_reader, t_calls>>
    /\ UNCHANGED not_two_vars

\* The UI thread calls screen_text on session s, for the poll of an AgentView.
TwoUiSnapshot(s) ==
    /\ t_ui.pc = "idle"
    /\ t_calls < MaxCalls
    /\ t_ui' = [op |-> "screen_text", s |-> s, pc |-> "wait",
                m |-> parser_of(s), todo |-> <<DropStep(parser_of(s))>>]
    /\ UNCHANGED <<t_mutex, t_reader, t_calls>>
    /\ UNCHANGED not_two_vars

\* The UI thread, lock(): it waits until the Mutex is free.
TwoUiLock ==
    /\ t_ui.pc = "wait"
    /\ t_mutex[t_ui.m] = NoHolder
    /\ t_mutex' = [t_mutex EXCEPT ![t_ui.m] = UiHolder]
    /\ t_ui' = [t_ui EXCEPT !.pc = "held"]
    /\ UNCHANGED <<t_reader, t_calls>>
    /\ UNCHANGED not_two_vars

\* The UI thread goes on behind a lock(): it drops a guard, and then the call
\* returns or comes to its next lock(); or it comes to a lock() with the
\* guard still alive.
TwoUiReturn ==
    /\ t_ui.pc = "held"
    /\ LET next == Head(t_ui.todo)
           rest == Tail(t_ui.todo)
       IN  IF next.act = "lock"
           THEN /\ t_ui' = [t_ui EXCEPT !.pc = "wait", !.m = next.m,
                                        !.todo = rest]
                /\ UNCHANGED <<t_mutex, t_calls>>
           ELSE /\ t_mutex' = [t_mutex EXCEPT ![next.m] = NoHolder]
                /\ IF rest = <<>>
                   THEN t_ui' = UiIdle /\ t_calls' = t_calls + 1
                   ELSE /\ t_calls' = t_calls
                        /\ IF rest[1].act = "lock"
                           THEN t_ui' = [t_ui EXCEPT !.pc = "wait",
                                                    !.m = rest[1].m,
                                                    !.todo = Tail(rest)]
                           ELSE t_ui' = [t_ui EXCEPT !.m = rest[1].m,
                                                    !.todo = rest]
    /\ UNCHANGED t_reader
    /\ UNCHANGED not_two_vars

\* ---------------------------------------------------------------- editor

\* What Event::Text and Event::Paste insert, and what a file can hold.
EditorTexts == {<<"a">>, <<"b">>}
FileContents == {<<>>, <<"a">>}

\* struct UndoEntry
UndoEntry(text, cursor) == [content |-> text, cursor |-> cursor]

\* usize::min
min(a, b) == IF a <= b THEN a ELSE b
max(a, b) == IF a >= b THEN a ELSE b

\* Editor::new(id) and Editor::open_file(id, path) on a file that holds
\* text: the fields the edits read and write. selection_anchor is a sequence
\* of no or one offset.
NewEditor(text) ==
    [content |-> text, cursor |-> 0, selection_anchor |-> <<>>,
     modified |-> FALSE, undo_stack |-> <<>>, redo_stack |-> <<>>,
     last_snapshot_content |-> text]

\* String::replace_range(start..end, "")
remove_range(text, start, end) ==
    SubSeq(text, 1, start) \o SubSeq(text, end + 1, Len(text))

\* Editor::snapshot_undo: when content differs from last_snapshot_content,
\* the entry pushed holds last_snapshot_content, not content, and the redo
\* stack is cleared; otherwise nothing happens.
snapshot_undo(ed) ==
    IF ed.content # ed.last_snapshot_content
    THEN [ed EXCEPT
            !.undo_stack = Append(@, UndoEntry(ed.last_snapshot_content,
                                               ed.cursor)),
            !.last_snapshot_content = ed.content,
            !.redo_stack = <<>>]
    ELSE ed

\* Editor::undo
undo(ed) ==
    IF ed.undo_stack = <<>> THEN ed
    ELSE LET entry == ed.undo_stack[Len(ed.undo_stack)]
         IN  [ed EXCEPT
                !.undo_stack = SubSeq(@, 1, Len(@) - 1),
                !.redo_stack = Append(@, UndoEntry(ed.content, ed.cursor)),
                !.content = entry.content,
                !.cursor = min(entry.cursor, Len(entry.content)),
                !.last_snapshot_content = entry.content,
                !.modified = TRUE]

\* Editor::redo
redo(ed) ==
    IF ed.redo_stack = <<>> THEN ed
    ELSE LET entry == ed.redo_stack[Len(ed.redo_stack)]
         IN  [ed EXCEPT
                !.redo_stack = SubSeq(@, 1, Len(@) - 1),
                !.undo_stack = Append(@, UndoEntry(ed.content, ed.cursor)),
                !.content = entry.content,
                !.cursor = min(entry.cursor, Len(entry.content)),
                !.last_snapshot_content = entry.content,
                !.modified = TRUE]

\* Editor::delete_selection: the editor behind it; it returned true exactly
\* when there was a selection.
delete_selection(ed) ==
    IF ed.selection_anchor = <<>> THEN ed
    ELSE LET anchor == ed.selection_anchor[1]
             start == min(min(anchor, ed.cursor), Len(ed.content))
             end == min(max(anchor, ed.cursor), Len(ed.content))
             snap == snapshot_undo([ed EXCEPT !.selection_anchor = <<>>])
         IN  [snap EXCEPT
                !.content = remove_range(@, start, end),
                !.cursor = start,
                !.modified = TRUE]

\* Editor::insert_text
insert_text(ed, text) ==
    LET snap == snapshot_undo(delete_selection(ed))
        pos == min(snap.cursor, Len(snap.content))
    IN  [snap EXCEPT
           !.content = SubSeq(@, 1, pos) \o text \o SubSeq(@, pos + 1, Len(@)),
           !.cursor = pos + Len(text),
           !.modified = TRUE]

\* Editor::render, Key::Backspace in the editing mode.
backspace(ed) ==
    IF ed.selection_anchor # <<>> THEN delete_selection(ed)
    ELSE IF ed.cursor > 0
    THEN LET snap == snapshot_undo(ed)
         IN  [snap EXCEPT
                !.content = remove_range(@, ed.cursor - 1, ed.cursor),
                !.cursor = ed.cursor - 1,
                !.modified = TRUE]
    ELSE ed

\* Editor::render, Key::Delete in the editing mode.
delete_forward(ed) ==
    IF ed.selection_anchor # <<>> THEN delete_selection(ed)
    ELSE IF ed.cursor < Len(ed.content)
    THEN LET snap == snapshot_undo(ed)
         IN  [snap EXCEPT
                !.content = remove_range(@, ed.cursor, ed.cursor + 1),
                !.modified = TRUE]
    ELSE ed

\* Editor::move_cursor_left and move_cursor_right.
move_cursor(ed, right, shift) ==
    LET anchored ==
          IF ~shift THEN [ed EXCEPT !.selection_anchor = <<>>]
          ELSE IF ed.selection_anchor = <<>>
          THEN [ed EXCEPT !.selection_anchor = <<ed.cursor>>]
          ELSE ed
    IN  IF right
        THEN IF ed.cursor < Len(ed.content)
             THEN [anchored EXCEPT !.cursor = ed.cursor + 1] ELSE anchored
        ELSE IF ed.cursor > 0
             THEN [anchored EXCEPT !.cursor = ed.cursor - 1] ELSE anchored

EditorOff ==
    /\ editor = NewEditor(<<>>)
    /\ e_pc = "off"
    /\ e_op = "none"
    /\ e_before = <<>>
    /\ e_events = 0

\* An editor tab behind Editor::new_empty or Editor::open_file.
EditorInit ==
    /\ editor \in {NewEditor(text) : text \in FileContents}
    /\ e_pc = "render"
    /\ e_op = "none"
    /\ e_before = editor.content
    /\ e_events = 0

\* The step of Editor::render named name took the editor to ed.
EditorStep(name, ed) ==
    /\ e_pc = "render"
    /\ e_events < MaxEvents
    /\ e_events' = e_events + 1
    /\ e_op' = name
    /\ e_before' = editor.content
    /\ editor' = ed
    /\ UNCHANGED e_pc
    /\ UNCHANGED not_editor_vars

\* Editor::render, Event::Text and Event::Paste.
EdInsert(text) == EditorStep("insert", insert_text(editor, text))

\* Editor::render, Key::Backspace, Key::Delete and cmd+X, where they have
\* something to delete.
EdBackspace ==
    /\ editor.selection_anchor # <<>> \/ editor.cursor > 0
    /\ EditorStep("delete", backspace(editor))

EdDelete ==
    /\ editor.selection_anchor # <<>> \/ editor.cursor < Len(editor.content)
    /\ EditorStep("delete", delete_forward(editor))

EdCut ==
    /\ editor.selection_anchor # <<>>
    /\ EditorStep("cut", delete_selection(editor))

\* Editor::render, cmd+Z and cmd+shift+Z.
EdUndo == EditorStep("undo", undo(editor))

EdRedo == EditorStep("redo", redo(editor))

\* Editor::render, cmd+A and the arrow keys: the cursor and the selection
\* move, the content stays.
EdSelectAll ==
    /\ e_pc = "render"
    /\ e_events < MaxEvents
    /\ e_events' = e_events + 1
    /\ editor' = [editor EXCEPT !.selection_anchor = <<0>>,
                                !.cursor = Len(editor.content)]
    /\ UNCHANGED <<e_pc, e_op, e_before>>
    /\ UNCHANGED not_editor_vars

EdMove(right, shift) ==
    /\ e_pc = "render"
    /\ e_events < MaxEvents
    /\ e_events' = e_events + 1
    /\ editor' = move_cursor(editor, right, shift)
    /\ UNCHANGED <<e_pc, e_op, e_before>>
    /\ UNCHANGED not_editor_vars

MoreOff == KeyOff /\ ColorOff /\ IdsOff /\ AppOff /\ TwoOff /\ EditorOff

\* -------------------------------------------------------- specifications

Init == AvInit /\ DeltaOff /\ TermOff /\ LineOff /\ MoreOff

Next ==
    \/ \E clicked \in BOOLEAN, current \in ScreenTexts : RenderTop(clicked, current)
    \/ \E clicked \in 0..Len(messages) : RenderMessages(clicked)
    \/ \E buf_ \in InputBufs, enter \in BOOLEAN : RenderInput(buf_, enter)

\* One AgentView over its frames.
Spec == Init /\ [][Next]_vars

InitDelta == AvInit /\ DeltaInit /\ TermOff /\ LineOff /\ MoreOff

NextDelta == ComputeDelta

\* The delta of poll_output on every pair of texts.
SpecDelta == InitDelta /\ [][NextDelta]_vars

InitTerm == AvInit /\ DeltaOff /\ TermInit /\ LineOff /\ MoreOff

NextTerm ==
    \/ ChildWrite
    \/ ChildExit
    \/ ReaderReadOk
    \/ ReaderReadEof
    \/ ReaderReadErr
    \/ ReaderMatch
    \/ ReaderLock
    \/ ReaderProcessBegin
    \/ ReaderProcessEnd
    \/ ReaderPanic
    \/ \E size \in Sizes : UiRenderStart(size[1], size[2])
    \/ UiResizeLock
    \/ UiResizeSet
    \/ UiRenderLock
    \/ UiRenderPaint
    \/ UiSnapshotLock
    \/ UiSnapshotRead
    \/ UiPanic
    \/ \E write_ok \in BOOLEAN : UiWriteInput(write_ok)
    \/ DropSession

InitLine == AvInit /\ DeltaOff /\ TermOff /\ LineInit /\ MoreOff

InitKey ==
    /\ AvInit /\ DeltaOff /\ TermOff /\ LineOff
    /\ KeyInit /\ ColorOff /\ IdsOff /\ AppOff /\ TwoOff /\ EditorOff

NextKey == KeyEvent

\* key_to_escape on every key with every set of modifiers.
SpecKey == InitKey /\ [][NextKey]_vars

InitColor ==
    /\ AvInit /\ DeltaOff /\ TermOff /\ LineOff
    /\ KeyOff /\ ColorInit /\ IdsOff /\ AppOff /\ TwoOff /\ EditorOff

NextColor == ResolveColor

\* vt100_color_to_egui on every colour, as foreground and as background.
SpecColor == InitColor /\ [][NextColor]_vars

InitIds ==
    /\ AvInit /\ DeltaOff /\ TermOff /\ LineOff
    /\ KeyOff /\ ColorOff /\ IdsInit /\ AppOff /\ TwoOff /\ EditorOff

NextIds ==
    \/ \E t \in Creators, kind \in {"terminal", "agent"}, ok \in BOOLEAN :
          IdSpawn(t, kind, ok)
    \/ \E t \in Creators : IdTerminal(t)
    \/ \E t \in Creators : IdView(t)
    \/ \E n \in 1..Len(i_assigned) : IdDrop(n)

\* The two id counters under threads that create and drop sessions.
SpecIds == InitIds /\ [][NextIds]_vars

InitApp ==
    /\ AvInit /\ DeltaOff /\ TermOff /\ LineOff
    /\ KeyOff /\ ColorOff /\ IdsOff /\ AppInit /\ TwoOff /\ EditorOff

NextApp ==
    \/ \E ok \in BOOLEAN : AppNewTerminal(ok)
    \/ \E ok \in BOOLEAN : AppRequestTerminal(ok)
    \/ \E kind \in {"ClaudeCode", "Codex"}, ok \in BOOLEAN :
          AppRequestAgent(kind, ok)
    \/ AppNewFile
    \/ \E ok \in BOOLEAN : AppOpenFile(ok)
    \/ \E id \in editors : AppOpenFileAgain(id)
    \/ AppCloseTab
    \/ \E k \in 1..Len(leaves(pane_root)) :
          \E i \in 0..(Len(leaves(pane_root)[k].tabs) - 1) : AppTabClick(k, i)

\* The host from its start over its requests.
SpecApp == InitApp /\ [][NextApp]_vars

InitTwo ==
    /\ AvInit /\ DeltaOff /\ TermOff /\ LineOff
    /\ KeyOff /\ ColorOff /\ IdsOff /\ AppOff /\ TwoInit /\ EditorOff

NextTwo ==
    \/ \E s \in Sessions : TwoReaderReadOk(s)
    \/ \E s \in Sessions : TwoReaderReadEnd(s)
    \/ \E s \in Sessions : TwoReaderLock(s)
    \/ \E s \in Sessions : TwoReaderProcess(s)
    \/ \E call \in {"write_input", "resize", "render"}, s \in Sessions :
          TwoUiCall(call, s)
    \/ \E s \in Sessions : TwoUiSnapshot(s)
    \/ TwoUiLock
    \/ TwoUiReturn

\* Two Terminals, their readers, and the UI thread calling into them.
SpecTwo == InitTwo /\ [][NextTwo]_vars

InitEditor ==
    /\ AvInit /\ DeltaOff /\ TermOff /\ LineOff
    /\ KeyOff /\ ColorOff /\ IdsOff /\ AppOff /\ TwoOff /\ EditorInit

NextEditor ==
    \/ \E text \in EditorTexts : EdInsert(text)
    \/ EdBackspace
    \/ EdDelete
    \/ EdCut
    \/ EdUndo
    \/ EdRedo
    \/ EdSelectAll
    \/ \E right \in BOOLEAN, shift \in BOOLEAN : EdMove(right, shift)

\* One editor over its edits, undos and redos.
SpecEditor == InitEditor /\ [][NextEditor]_vars

NextLine == ClassifyLine

\* The classification of every line in every state between two lines.
SpecLine == InitLine /\ [][NextLine]_vars

\* One Terminal: its child, its reader thread and the UI thread rendering it.
SpecTerm == InitTerm /\ [][NextTerm]_vars

\* The reader is a thread of its own: the scheduler runs a step it can take.
\* Nothing makes the child write or exit.
SpecTermFair == SpecTerm /\ WF_vars(ReaderStep)

\* ------------------------------------------------- transcript properties

\* The fields of a message other than collapsed.
SameButCollapsed(m, n) ==
    m.kind = n.kind /\ m.content = n.content /\ m.name = n.name

\* One step of render on the message list, as C1 allows it.
AppendOnlyStep ==
    /\ Len(messages') >= Len(messages)
    /\ \A i \in 1..Len(messages) :
          /\ messages'[i].kind = messages[i].kind
          /\ messages'[i].name = messages[i].name
          /\ starts_with(messages'[i].content, messages[i].content)
          /\ messages'[i].content # messages[i].content
                => /\ op' = "poll"
                   /\ i = Len(messages)
                   /\ messages[i].kind = "Assistant"
                   /\ accumulating_assistant
          /\ messages'[i].collapsed # messages[i].collapsed
                => /\ op' = "toggle"
                   /\ messages[i].kind = "Tool"
                   /\ Len(messages') = Len(messages)
                   /\ \A j \in 1..Len(messages) : SameButCollapsed(messages'[j], messages[j])
    /\ op' = "submit"
          => /\ Len(messages') = Len(messages) + 1
             /\ messages'[Len(messages')].kind = "User"
    /\ op' \in {"raw", "noclick", "noenter"} => messages' = messages

\* C1: the message list is append-only. No step of render removes or reorders
\* a message or changes the kind or name of one; content only grows, and only
\* that of the last message, by a poll, when it is the open Assistant block;
\* collapsed changes only by a click on that Tool message.
C1_AppendOnly == [][AppendOnlyStep]_vars

\* C1's case: over two frames a Tool message was expanded by a click and a
\* later poll extended the open Assistant message behind it.
C1_Witness ==
    /\ op = "poll" /\ frames = 2
    /\ Len(messages) = 2
    /\ messages[1].kind = "Tool" /\ ~messages[1].collapsed
    /\ messages[2].kind = "Assistant" /\ contains(messages[2].content, <<NL>>)

\* C2: whenever accumulating_assistant is true the message list is not empty
\* and its last message is an Assistant message.
C2_OpenBlockIsLast == accumulating_assistant => last_is_assistant(messages)

\* C2's case: an Assistant block is open behind a User message and a Tool
\* message, after polls, a tool line and a submit.
C2_Witness ==
    /\ accumulating_assistant
    /\ Len(messages) >= 3
    /\ \E i \in 1..Len(messages) : messages[i].kind = "User"
    /\ \E i \in 1..Len(messages) : messages[i].kind = "Tool"

\* C6: a poll that reads a screen text equal to last_screen_text changes
\* neither messages nor last_screen_text nor accumulating_assistant.
C6_PollIdempotent ==
    [][(op' = "poll" /\ current_text' = last_screen_text)
          => UNCHANGED <<messages, last_screen_text, accumulating_assistant>>]_vars

\* C6's case: the second of two polls read the screen the first one had read,
\* with an Assistant block open.
C6_Witness ==
    /\ op = "poll" /\ frames = 2
    /\ prev_text = current_text /\ current_text # <<>>
    /\ accumulating_assistant

\* C9: after a poll that returned, last_screen_text is the text it read.
C9_LastTextIsScreen ==
    (op = "poll" /\ ~av_panicked) => last_screen_text = current_text

\* C9's case: a poll returned on a delta that is not empty and all whitespace.
C9_Witness ==
    /\ op = "poll" /\ ~av_panicked
    /\ prev_text # current_text
    /\ new_content(prev_text, current_text).text # <<>>
    /\ trim(new_content(prev_text, current_text).text) = <<>>
    /\ messages # <<>>

\* The line with trimmed text t was kept by the iteration from before to
\* after: it is the content of one new Tool or Assistant message, or it went,
\* behind a newline, to the end of the last message, an Assistant message.
LineKept(before, t, after) ==
    LET m == before.messages
        n == after.messages
    IN  \/ /\ Len(n) = Len(m) + 1
           /\ SubSeq(n, 1, Len(m)) = m
           /\ n[Len(n)].kind \in {"Tool", "Assistant"}
           /\ n[Len(n)].content = t
        \/ /\ last_is_assistant(m)
           /\ n = [m EXCEPT ![Len(m)].content = @ \o <<NL>> \o t]

\* Dropping the line with trimmed text t was allowed: a blank line with no
\* Assistant block open, or a prompt echo.
LineDropAllowed(before, t, after) ==
    /\ after.messages = before.messages
    /\ \/ t = <<>> /\ ~before.accumulating_assistant
       \/ /\ t # <<>>
          /\ \E m \in prompt_markers : starts_with(t, m)

\* Every line of the delta d, parsed from st, is kept or dropped as allowed.
NoLineLost(st, d) ==
    LET ls == lines(d)
    IN  \A k \in 1..Len(ls) :
           LET before == parse_lines(st, SubSeq(ls, 1, k - 1))
               after == parse_lines(st, SubSeq(ls, 1, k))
               t == trim(ls[k])
           IN  LineKept(before, t, after) \/ LineDropAllowed(before, t, after)

\* C10: a poll that classifies a delta loses no line of it: every line goes
\* to a new Tool message, a new Assistant message or the open Assistant
\* message, but for blank lines outside an open block and prompt echoes; and
\* the transcript the poll leaves is the one its last line leaves.
C10_NoLineDropped ==
    [][(op' = "poll" /\ ~av_panicked' /\ current_text' # last_screen_text)
          => LET d == new_content(last_screen_text, current_text').text
                 st == ParseState(messages, accumulating_assistant)
             IN  trim(d) # <<>>
                    => /\ NoLineLost(st, d)
                       /\ parse_new_content(st, d)
                             = ParseState(messages', accumulating_assistant')]_vars

\* C10's case: a poll classified a delta of two lines into a Tool message and
\* an Assistant message.
C10_Witness ==
    /\ op = "poll" /\ ~av_panicked
    /\ Len(lines(new_content(prev_text, current_text).text)) = 2
    /\ Len(messages) >= 2
    /\ messages[Len(messages)].kind = "Tool"
    /\ messages[Len(messages) - 1].kind = "Assistant"

\* ------------------------------------------------------ delta properties

\* The characters of current behind its longest common prefix with last.
BehindCommonPrefix(last, current) ==
    SubSeq(current, common_prefix(last, current) + 1, Len(current))

\* C7: for current_text that differs from last_text and does not start with
\* it, computing the delta does not fail and gives the part of current_text
\* behind the longest common prefix of the two.
C7_RewriteDelta ==
    (d_pc = "done" /\ ~starts_with(d_current, d_last))
        => /\ ~d_result.panic
           /\ d_result.text = BehindCommonPrefix(d_last, d_current)

\* C8: for current_text that starts with last_text and is longer, the delta
\* is the suffix of current_text behind last_text.
C8_AppendDelta ==
    (d_pc = "done" /\ starts_with(d_current, d_last) /\ Len(d_current) > Len(d_last))
        => /\ ~d_result.panic
           /\ d_result.text = SubSeq(d_current, Len(d_last) + 1, Len(d_current))

\* C8's case: last_text = "abc" and current_text = "abcdef" gave "def".
C8_Witness ==
    /\ d_pc = "done"
    /\ d_last = <<"a","b","c">>
    /\ d_current = <<"a","b","c","d","e","f">>
    /\ d_result = [panic |-> FALSE, text |-> <<"d","e","f">>]

\* ---------------------------------------------------- session properties

\* Behind a read that returned end-of-stream or an error, a step reads
\* nothing and leaves the reader where it is or ends it.
NothingButEnd ==
    read_result \in {"eof", "err"}
        => /\ read_result' = read_result
           /\ read_log' = read_log
           /\ buf' = buf
           /\ reader_pc' \in {reader_pc, "done"}

\* C3: the reader thread has left its loop only after a read that returned
\* end-of-stream or an error; behind such a read it reads nothing more and
\* does nothing but end; and it does end, by its own steps alone.
C3_ReaderEndsAtEof ==
    /\ [](reader_pc = "done" => read_result \in {"eof", "err"})
    /\ [][NothingButEnd]_vars
    /\ (read_result \in {"eof", "err"}) ~> (reader_pc = "done")

\* C3's case: the child wrote, exited, and the reader has read all of it,
\* then the end of the stream, and has ended.
C3_Witness ==
    /\ reader_pc = "done" /\ read_result = "eof"
    /\ child_exited /\ Len(read_log) = MaxChunks

\* Where the UI thread is inside resize, render or screen_text with the
\* parser in its hands.
UiInParser == {"resize_set", "render_paint", "snapshot_read"}

\* C4: the parser is used only under its mutex. The reader processes a chunk
\* only as the holder, the UI thread resizes, paints and reads the text only
\* as the holder, the two never at once, and no paint and no screen_text has
\* read a chunk applied in part.
C4_ParserUnderMutex ==
    /\ reader_pc \in {"process", "processing"} => parser_lock = "reader"
    /\ ui_pc \in UiInParser => parser_lock = "ui"
    /\ ~(reader_pc \in {"process", "processing"} /\ ui_pc \in UiInParser)
    /\ ui_pc \in UiInParser => ~parser.partial
    /\ ~seen.partial
    /\ ~snapshot.partial

\* C4's case: behind a resize and a screen_text, the UI thread holds the
\* mutex to paint while the reader, a chunk in its buffer, waits for it.
C4_Witness ==
    /\ ui_pc = "render_paint" /\ parser_lock = "ui"
    /\ reader_pc = "lock" /\ buf # 0
    /\ parser.applied # <<>>
    /\ snapshot.valid /\ parser.rows # InitialSize[1]

\* The chunk the reader holds and has not applied whole.
InFlight ==
    IF reader_pc \in {"match", "lock", "process", "processing", "panicked"}
    THEN {buf} ELSE {}

\* C5: the chunks applied to the parser are the chunks read, in the order
\* read and each once, without those dropped at a poisoned mutex and the one
\* still in the buffer.
C5_ChunksInOrder ==
    /\ \A i \in 1..Len(read_log) : read_log[i] = i
    /\ parser.applied
          = SelectSeq(read_log, LAMBDA c : c \notin skipped /\ c \notin InFlight)

\* C5's case: two chunks were applied, with a resize and a paint between
\* them.
C5_Witness ==
    /\ parser.applied = <<1, 2>>
    /\ parser.rows # InitialSize[1]
    /\ seen.valid /\ seen.applied = <<1>>

\* C16: behind a submit the last message is a User message with the trimmed
\* text, that text and a carriage return were written to the session, no
\* Assistant block is open, and whatever the next poll reads leaves every
\* message up to the User message as it is: assistant text goes behind it.
C16_SubmitStartsAfresh ==
    op = "submit"
        => /\ messages # <<>>
           /\ messages[Len(messages)].kind = "User"
           /\ messages[Len(messages)].content # <<>>
           /\ written = messages[Len(messages)].content \o <<CR>>
           /\ ~accumulating_assistant
           /\ \A current \in ScreenTexts :
                 LET r == poll_output(
                            [messages |-> messages,
                             last_screen_text |-> last_screen_text,
                             accumulating_assistant |-> accumulating_assistant],
                            current)
                 IN  /\ Len(r.messages) >= Len(messages)
                     /\ SubSeq(r.messages, 1, Len(messages)) = messages

\* C16's case: a submit behind an open Assistant block, and the poll behind
\* it read an assistant line, which stands in a third message.
C16_Witness ==
    /\ op = "poll" /\ ~av_panicked
    /\ Len(messages) = 3
    /\ messages[1].kind = "Assistant"
    /\ messages[2].kind = "User"
    /\ messages[3].kind = "Assistant"

\* A poll that returned and whose delta is empty or all whitespace.
BlankDeltaPoll ==
    /\ op' = "poll" /\ ~av_panicked'
    /\ trim(new_content(last_screen_text, current_text').text) = <<>>

\* C26: a poll whose delta is empty or all whitespace changes no message and
\* not accumulating_assistant; last_screen_text becomes the text it read.
C26_BlankDeltaNoEffect ==
    [][BlankDeltaPoll
          => /\ UNCHANGED <<messages, accumulating_assistant>>
             /\ last_screen_text' = current_text']_vars

\* C26's case: with an Assistant block open, the second poll read a screen
\* that had grown by whitespace only, and the block is still open.
C26_Witness ==
    /\ op = "poll" /\ ~av_panicked /\ frames = 2
    /\ accumulating_assistant
    /\ Len(current_text) > Len(prev_text)
    /\ starts_with(current_text, prev_text)
    /\ trim(new_content(prev_text, current_text).text) = <<>>
    /\ last_screen_text = current_text

\* The position of a letter in the alphabet.
PositionOf(letter) == CHOOSE i \in 1..Len(Letters) : Letters[i] = letter

\* C27: with Control down, each of C, D, Z, L, A, E, K, U, W gives exactly one
\* byte, the position of the letter in the alphabet, whatever else is down.
C27_CtrlLetters ==
    (/\ k_pc = "done"
     /\ k_modifiers.ctrl
     /\ k_key \in {"C", "D", "Z", "L", "A", "E", "K", "U", "W"})
        => /\ k_seq = <<PositionOf(k_key)>>
           /\ k_writes = 1

\* C27's case: Ctrl+Shift+Z gave the byte 26, which was written.
C27_Witness ==
    /\ k_pc = "done"
    /\ k_key = "Z" /\ k_modifiers.ctrl /\ k_modifiers.shift
    /\ k_seq = <<26>> /\ k_writes = 1

\* ESC [ and the bytes behind it.
CSI(final) == <<27, 91>> \o final

\* The byte sequences of the named keys: "A" is 65, "5" is 53, "~" is 126.
NamedSequence(key) ==
    CASE key = "Enter" -> <<13>>
      [] key = "Tab" -> <<9>>
      [] key = "Backspace" -> <<127>>
      [] key = "Escape" -> <<27>>
      [] key = "ArrowUp" -> CSI(<<65>>)
      [] key = "ArrowDown" -> CSI(<<66>>)
      [] key = "ArrowRight" -> CSI(<<67>>)
      [] key = "ArrowLeft" -> CSI(<<68>>)
      [] key = "Home" -> CSI(<<72>>)
      [] key = "End" -> CSI(<<70>>)
      [] key = "PageUp" -> CSI(<<53, 126>>)
      [] key = "PageDown" -> CSI(<<54, 126>>)
      [] key = "Delete" -> CSI(<<51, 126>>)

\* C28: the encoder returns for every key and every set of modifiers: a named
\* key gives its sequence, whatever modifiers are down; a key that is neither
\* named nor a Control letter of the list gives the empty sequence, and then
\* nothing is written; the result is a function of key and modifiers.
C28_NamedKeysAndNothingElse ==
    k_pc = "done"
        => /\ k_key \in NamedKeys => k_seq = NamedSequence(k_key)
           /\ (/\ k_key \notin NamedKeys
               /\ ~(/\ k_modifiers.ctrl
                    /\ k_key \in {"C", "D", "Z", "L", "A", "E", "K", "U", "W"}))
                 => k_seq = <<>> /\ k_writes = 0
           /\ \A i \in 1..Len(k_seq) : k_seq[i] \in 0..255

\* C28's case: Ctrl+PageUp gave ESC [ 5 ~, the sequence of PageUp.
C28_Witness ==
    /\ k_pc = "done"
    /\ k_key = "PageUp" /\ k_modifiers.ctrl
    /\ k_seq = <<27, 91, 53, 126>>

\* A component of the colour cube: 0, or 55 + 40 * v.
CubeValue(v) == IF v = 0 THEN 0 ELSE 55 + 40 * v

\* C29: every palette index resolves to a colour of three values in 0..255
\* that no step of the arithmetic overflowed: 0..15 by the table; 16..231 by
\* the cube with r = (i-16)/36, g = ((i-16)/6) mod 6, b = (i-16) mod 6, each
\* component 0 or 55 + 40 * v; 232..255 by the gray 8 + 10 * (i-232), and no
\* two of these 24 indices give the same gray; an RGB colour is returned
\* as it is.
C29_PaletteResolution ==
    c_pc = "done"
        => /\ ~c_result.overflow
           /\ {c_result.r, c_result.g, c_result.b} \subseteq 0..255
           /\ (c_color.tag = "Idx" /\ c_color.i \in 0..15)
                 => <<c_result.r, c_result.g, c_result.b>> = BASIC[c_color.i + 1]
           /\ (c_color.tag = "Idx" /\ c_color.i \in 16..231)
                 => LET i == c_color.i - 16
                    IN  /\ c_result.r = CubeValue(i \div 36)
                        /\ c_result.g = CubeValue((i \div 6) % 6)
                        /\ c_result.b = CubeValue(i % 6)
           /\ (c_color.tag = "Idx" /\ c_color.i \in 232..255)
                 => /\ c_result.r = 8 + 10 * (c_color.i - 232)
                    /\ c_result.g = c_result.r /\ c_result.b = c_result.r
                    /\ \A j \in 232..255 :
                          j # c_color.i
                             => vt100_color_to_egui([tag |-> "Idx", i |-> j],
                                                    c_is_fg) # c_result
           /\ c_color.tag = "Rgb"
                 => /\ c_result.r = c_color.r
                    /\ c_result.g = c_color.g
                    /\ c_result.b = c_color.b

\* C29's case: the last index of the gray ramp gave 238, the greatest gray.
C29_Witness ==
    /\ c_pc = "done"
    /\ c_color = [tag |-> "Idx", i |-> 255]
    /\ c_result = [r |-> 238, g |-> 238, b |-> 238, overflow |-> FALSE]

\* C24: the ids of the Terminals, in the order they were given, increase
\* strictly, and so do those of the AgentViews: two sessions never have the
\* same id, whichever threads made them, and the id of a dropped session is
\* not given again.
C24_IdsIncrease ==
    \A m, n \in 1..Len(i_assigned) :
        (m < n /\ i_assigned[m].kind = i_assigned[n].kind)
            => i_assigned[m].id < i_assigned[n].id

\* C24's case: two threads are in the creation of an agent session at once;
\* each has its Terminal, with the ids 0 and 1, and no AgentView yet.
C24_Witness ==
    /\ \A t \in Creators : i_pc[t] = "view"
    /\ Len(i_assigned) = 2
    /\ i_assigned[1] = [kind |-> "terminal", id |-> 0]
    /\ i_assigned[2] = [kind |-> "terminal", id |-> 1]
    /\ i_live = {1, 2}

\* C25 as stated: behind a creation request whose spawn failed, an initial
\* terminal or a new tab, the maps and the tabs are what they were before it
\* and the application runs on.
C25_FailedSpawnIsSilent ==
    (a_request.kind # "none" /\ ~a_request.ok)
        => /\ terminals = a_request.terminals
           /\ agent_views = a_request.agent_views
           /\ tabs = a_request.tabs
           /\ a_pc # "panicked"

\* C23: a call of write_input, resize, render or screen_text on one session
\* waits for nothing another session holds: while it waits for a Mutex, the
\* lock can be taken unless the reader of that same session is in process,
\* wherever the reader of the other session is; and a Mutex of a session is
\* held by the UI thread or by the reader of that session only.
C23_NoCrossSessionBlocking ==
    /\ (t_ui.pc = "wait" /\ t_reader[t_ui.s] # "process") => ENABLED TwoUiLock
    /\ \A s \in Sessions :
          /\ t_mutex[parser_of(s)] \in {NoHolder, UiHolder, <<"reader", s>>}
          /\ t_mutex[writer_of(s)] \in {NoHolder, UiHolder}

\* C23's case: the reader of session 2 holds the Mutex of its parser, and the
\* UI thread, having returned from a call before, is inside render on
\* session 1 with the lock of that parser.
C23_Witness ==
    /\ t_reader[2] = "process"
    /\ t_mutex[parser_of(2)] = <<"reader", 2>>
    /\ t_ui.op = "render" /\ t_ui.s = 1 /\ t_ui.pc = "held"
    /\ t_reader[1] = "read"
    /\ t_calls = 1

\* text ends with tail.
ends_with(text, tail) ==
    /\ Len(tail) <= Len(text)
    /\ SubSeq(text, Len(text) - Len(tail) + 1, Len(text)) = tail

\* The screen text current is last with characters, none a newline and not
\* all of them whitespace, behind its last line, a line without a newline
\* behind it, with which the open Assistant message ends.
GrowsLastLine(last, current) ==
    /\ last # <<>>
    /\ ~is_whitespace(last[Len(last)])
    /\ Len(current) > Len(last)
    /\ SubSeq(current, 1, Len(last)) = last
    /\ LET d == SubSeq(current, Len(last) + 1, Len(current))
       IN  ~contains(d, <<NL>>) /\ trim(d) # <<>>
    /\ accumulating_assistant /\ last_is_assistant(messages)
    /\ LET ls == lines(last)
       IN  ends_with(messages[Len(messages)].content, trim(ls[Len(ls)]))

\* C32 as stated: a poll that finds the last line of the screen grown, with
\* an Assistant block open, puts the new characters right behind the content
\* of the open Assistant message, with no newline between.
C32_GrownLineIsExtended ==
    [][(/\ op' = "poll" /\ ~av_panicked'
        /\ GrowsLastLine(last_screen_text, current_text'))
          => /\ Len(messages') = Len(messages)
             /\ messages'[Len(messages)].content
                   = messages[Len(messages)].content
                        \o SubSeq(current_text', Len(last_screen_text) + 1,
                                  Len(current_text'))]_vars

\* C33 as stated: every Terminal, Editor, ClaudeCode or Codex tab in the pane
\* tree has an entry of its id in the map of its kind.
C33_TabsHaveEntries ==
    a_pc = "running"
        => \A tab \in tabs :
              /\ tab.kind = "Terminal" => tab.id \in terminals
              /\ tab.kind = "Editor" => tab.id \in editors
              /\ tab.kind \in {"ClaudeCode", "Codex"} => tab.id \in agent_views

\* C34: once the host runs, every leaf of the pane tree has a tab, and its
\* active_tab is an index of its tabs.
C34_ActiveTabInRange ==
    a_pc = "running"
        => \A k \in 1..Len(leaves(pane_root)) :
              LET leaf == leaves(pane_root)[k]
              IN  /\ Len(leaf.tabs) >= 1
                  /\ leaf.active_tab \in 0..(Len(leaf.tabs) - 1)

\* C34's case: the rightmost leaf got the tabs of Terminal 3 and Terminal 4,
\* the active one, Terminal 4, the last of three, was closed, and active_tab
\* went back to the last of two.
C34_Witness ==
    /\ a_pc = "running"
    /\ leaves(pane_root)[4].tabs
          = <<TabContent("Terminal", 2), TabContent("Terminal", 3)>>
    /\ leaves(pane_root)[4].active_tab = 1
    /\ next_terminal_id = 5
    /\ terminals = {0, 1, 2, 3}

\* C35: the UI thread never holds the parser Mutex and the writer Mutex of a
\* session together, and holds no Mutex while it waits for one; a reader
\* holds nothing but the parser Mutex of its session, and only in process.
\* So whoever waits for a Mutex waits for a holder that can go on.
C35_NoLockNesting ==
    /\ \A s \in Sessions :
          /\ ~(t_mutex[parser_of(s)] = UiHolder /\ t_mutex[writer_of(s)] = UiHolder)
          /\ t_mutex[writer_of(s)] # <<"reader", s>>
          /\ t_mutex[parser_of(s)] = <<"reader", s>> <=> t_reader[s] = "process"
          /\ t_reader[s] = "lock"
                => ENABLED TwoReaderLock(s) \/ ENABLED TwoUiReturn
    /\ t_ui.pc = "wait"
          => /\ \A m \in Mutexes : t_mutex[m] # UiHolder
             /\ ENABLED TwoUiLock \/ ENABLED TwoReaderProcess(t_ui.s)

\* C35's case: render on session 1, behind an earlier call, waits at its
\* last lock(), that of the parser, which the reader of session 1 holds in
\* process; the UI thread holds nothing and the writer Mutex is free.
C35_Witness ==
    /\ t_ui.op = "render" /\ t_ui.s = 1 /\ t_ui.pc = "wait"
    /\ t_ui.m = parser_of(1) /\ t_ui.todo = <<DropStep(parser_of(1))>>
    /\ t_reader[1] = "process"
    /\ t_mutex[writer_of(1)] = NoHolder
    /\ t_calls = 1

\* C36 as stated: the first undo behind an insert_text that changed content
\* gives content what it was before that insert.
C36_UndoRestores ==
    [][(/\ e_op = "insert" /\ editor.content # e_before
        /\ e_op' = "undo")
          => editor'.content = e_before]_vars

\* C37 as stated: the first edit behind an undo that took an entry leaves the
\* redo stack empty.
C37_EditClearsRedo ==
    [][(/\ e_op = "undo" /\ editor.redo_stack # <<>>
        /\ e_op' \in {"insert", "delete", "cut"}
        /\ editor'.content # editor.content)
          => editor'.redo_stack = <<>>]_vars

\* C17 as stated: outside a call of resize, the rows and cols of the session
\* are those of its parser, a poisoned mutex or not.
C17_SizesAgree ==
    ui_pc \in {"idle", "render_lock", "render_paint", "snapshot_read", "dropped"}
        => rows = parser.rows /\ cols = parser.cols

\* A call of resize with the size the session has.
ResizeToSameSize ==
    \E size \in Sizes :
        /\ size = <<rows, cols>>
        /\ UiRenderStart(size[1], size[2])

\* C18: resize with the size the session has returns at once: it assigns no
\* field, does not go for the mutex and leaves the parser, and so what a
\* snapshot of it shows, as it is.
C18_ResizeSameSizeIsNoOp ==
    [][ResizeToSameSize
          => /\ UNCHANGED <<rows, cols, parser, parser_lock, parser_poisoned>>
             /\ ui_pc' = "render_lock"]_vars

\* C18's case: the frame before painted at the size the session has now, a
\* size other than the first one, and this frame's resize to it has returned.
C18_Witness ==
    /\ ui_pc = "render_lock"
    /\ ~parser_poisoned
    /\ seen.valid /\ seen.rows = rows /\ seen.cols = cols
    /\ parser.rows = rows /\ parser.cols = cols
    /\ rows # InitialSize[1]

\* C19 as stated: once the host has dropped the session, the reader thread
\* ends.
C19_ReaderEndsAfterDrop ==
    (ui_pc = "dropped") ~> (reader_pc \in {"done", "panicked"})

\* A call of write_input.
WriteInputCall == \E write_ok \in BOOLEAN : UiWriteInput(write_ok)

\* C20: write_input returns to its caller whatever the writer does, and
\* leaves the parser, the size, what was painted and read, and the
\* transcript as they are; a write that failed or found the mutex poisoned
\* gave the child nothing.
C20_WriteInputSwallows ==
    [][WriteInputCall
          => /\ ui_pc' = ui_pc
             /\ UNCHANGED <<parser, parser_lock, parser_poisoned, rows, cols,
                            seen, snapshot>>
             /\ UNCHANGED <<messages, last_screen_text, accumulating_assistant>>
             /\ last_write' \in {"err", "poisoned"} => pty_in' = pty_in]_vars

\* C20's case: the child has exited, a write to it failed, and the frame
\* behind it painted the screen the child left.
C20_Witness ==
    /\ child_exited
    /\ last_write = "err" /\ pty_in = 0
    /\ ui_pc = "idle"
    /\ seen.valid /\ seen.applied = parser.applied /\ parser.applied # <<>>
    /\ reader_pc = "done"

\* A step that found the parser mutex poisoned went on without the parser:
\* the reader dropped its chunk and reads again, resize returned, render
\* painted nothing and the frame ended.
PoisonSkipped ==
    /\ (parser_poisoned /\ ReaderLock)
          => /\ reader_pc' = "read"
             /\ skipped' = skipped \cup {buf}
             /\ UNCHANGED <<parser, ui_pc>>
    /\ (parser_poisoned /\ UiResizeLock)
          => /\ ui_pc' = "render_lock"
             /\ UNCHANGED <<parser, reader_pc>>
    /\ (parser_poisoned /\ UiRenderLock)
          => /\ ui_pc' = "idle"
             /\ UNCHANGED <<parser, seen, reader_pc>>

\* C21: a poisoned parser mutex is passed over by the reader, by resize and
\* by render, and ends neither thread.
C21_PoisonIsSkipped == [][PoisonSkipped]_vars

\* C21's case: with the mutex poisoned, the reader has dropped two chunks and
\* is reading again.
C21_Witness ==
    /\ parser_poisoned
    /\ skipped = {1, 2}
    /\ reader_pc = "read"
    /\ parser.applied = <<>>

\* C22: the session has the one reader thread its construction spawned,
\* whatever was called on it since and also when that thread has ended.
C22_OneReader == reader_pc # "off" => readers_spawned = 1

\* C22's case: the reader has ended, and behind that the session was
\* resized, written to, painted and read.
C22_Witness ==
    /\ reader_pc = "done"
    /\ seen.valid /\ seen.applied = parser.applied
    /\ snapshot.valid /\ snapshot.rows # InitialSize[1]
    /\ last_write # "none"
    /\ read_log # <<>>
    /\ ui_pc = "render_lock"

\* ------------------------------------------------------- line properties

\* The line holds a tool marker: a tool identifier and "(" behind it, or a
\* spinner glyph.
HasToolMarker(line) ==
    \/ \E i \in 1..Len(tools) : contains(line, tools[i] \o <<"(">>)
    \/ \E i \in 1..Len(line) : line[i] \in SpinnerGlyphs

\* The line, trimmed, starts with a prompt marker.
IsPromptEcho(line) ==
    \E m \in {<<PromptGlyph, SP>>, <<">", SP>>, <<"$", SP>>} :
        starts_with(trim(line), m)

\* The messages of after are those of before with text behind the content of
\* the last one.
LastExtendedBy(before, after, text) ==
    /\ before.messages # <<>>
    /\ Len(after.messages) = Len(before.messages)
    /\ \A i \in 1..(Len(before.messages) - 1) :
          after.messages[i] = before.messages[i]
    /\ LET old == before.messages[Len(before.messages)]
           new == after.messages[Len(before.messages)]
       IN  /\ new.kind = old.kind
           /\ new.content = old.content \o text

\* The messages of after are those of before and one more, m.
OneMore(before, after, m) ==
    /\ Len(after.messages) = Len(before.messages) + 1
    /\ SubSeq(after.messages, 1, Len(before.messages)) = before.messages
    /\ after.messages[Len(after.messages)] = m

\* C11: a line that is not blank, holds no tool marker and is no prompt echo
\* opens an Assistant message with the trimmed line when no block is open,
\* and otherwise goes, behind a newline, to the end of the open Assistant
\* message; a block is open afterwards.
C11_AssistantLine ==
    (/\ l_pc = "done"
     /\ trim(l_line) # <<>>
     /\ ~HasToolMarker(l_line)
     /\ ~IsPromptEcho(l_line))
        => /\ l_after.accumulating_assistant
           /\ IF l_before.accumulating_assistant
              THEN LastExtendedBy(l_before, l_after, <<NL>> \o trim(l_line))
              ELSE OneMore(l_before, l_after,
                           [kind |-> "Assistant", content |-> trim(l_line),
                            name |-> <<>>, collapsed |-> FALSE])

\* C11's case: "1. Do X" behind "Here is the plan:" gave one Assistant message
\* with the two lines.
C11_Witness ==
    /\ l_pc = "done"
    /\ l_line = DoXLine
    /\ l_before.accumulating_assistant
    /\ l_before.messages[Len(l_before.messages)].content = PlanLine
    /\ l_after.messages[Len(l_after.messages)].content
          = PlanLine \o <<NL>> \o DoXLine

\* The Tool message the iteration pushed, if it pushed one.
PushedTool ==
    /\ Len(l_after.messages) = Len(l_before.messages) + 1
    /\ SubSeq(l_after.messages, 1, Len(l_before.messages)) = l_before.messages
    /\ l_after.messages[Len(l_after.messages)].kind = "Tool"

\* C12 as stated: a line with a tool marker gives one new collapsed Tool
\* message whose content is the raw line, and no block is open afterwards.
C12_ToolLineRaw ==
    (l_pc = "done" /\ HasToolMarker(l_line))
        => /\ PushedTool
           /\ l_after.messages[Len(l_after.messages)].content = l_line
           /\ l_after.messages[Len(l_after.messages)].collapsed
           /\ ~l_after.accumulating_assistant

\* C12, amended: a line with a tool marker gives one new collapsed Tool
\* message whose content is the line without the whitespace at its two ends,
\* and no block is open afterwards, whatever the state before.
C12_ToolLineTrimmed ==
    (l_pc = "done" /\ HasToolMarker(l_line))
        => /\ PushedTool
           /\ l_after.messages[Len(l_after.messages)].content = trim(l_line)
           /\ l_after.messages[Len(l_after.messages)].collapsed
           /\ ~l_after.accumulating_assistant

\* C12's case: "Read(src/main.rs)" with an Assistant block open.
C12_Witness ==
    /\ l_pc = "done"
    /\ l_line = ReadLine
    /\ l_before.accumulating_assistant
    /\ l_after.messages[Len(l_after.messages)].name = tools[1]

\* C13: the name of the Tool message of a tool line is the first identifier
\* of the list that stands in the line with "(" behind it, and "Tool" when
\* none does.
C13_FirstToolName ==
    (l_pc = "done" /\ HasToolMarker(l_line))
        => LET name == l_after.messages[Len(l_after.messages)].name
               Hit(i) == contains(l_line, tools[i] \o <<"(">>)
           IN  \/ \E i \in 1..Len(tools) :
                     /\ name = tools[i]
                     /\ Hit(i)
                     /\ \A j \in 1..(i - 1) : ~Hit(j)
               \/ /\ name = <<"T","o","o","l">>
                  /\ \A i \in 1..Len(tools) : ~Hit(i)

\* C13's case: "MultiEdit(a)" holds two identifiers of the list with "("
\* behind them, and "Edit" is the earlier one of the list.
C13_Witness ==
    /\ l_pc = "done"
    /\ l_line = tools[6] \o <<"(", "a">>
    /\ l_after.messages[Len(l_after.messages)].name = tools[3]

\* C30: the tool test stands before the prompt test: a line that starts with
\* a prompt marker and holds a tool marker is not dropped as a prompt echo;
\* it gives one new Tool message, which holds the marker and the rest of the
\* line, and every message before it stays.
C30_ToolBeforePrompt ==
    (l_pc = "done" /\ HasToolMarker(l_line) /\ IsPromptEcho(l_line))
        => /\ l_after.messages # l_before.messages
           /\ PushedTool
           /\ IsPromptEcho(l_after.messages[Len(l_after.messages)].content)
           /\ HasToolMarker(l_after.messages[Len(l_after.messages)].content)

\* C30's case: "$ Read(x)" with an Assistant block open became a Tool message
\* named Read.
C30_Witness ==
    /\ l_pc = "done"
    /\ l_line = DollarReadLine
    /\ l_before.accumulating_assistant
    /\ Len(l_after.messages) = Len(l_before.messages) + 1
    /\ l_after.messages[Len(l_after.messages)].kind = "Tool"
    /\ l_after.messages[Len(l_after.messages)].name = tools[1]
    /\ l_after.messages[Len(l_after.messages)].content = DollarReadLine

\* C31 as stated: a line that is an identifier t of the tool list, "(" and
\* arguments gives a Tool message named t.
C31_NamedByItsIdentifier ==
    l_pc = "done"
        => \A i \in 1..Len(tools) :
              starts_with(trim(l_line), tools[i] \o <<"(">>)
                 => /\ PushedTool
                    /\ l_after.messages[Len(l_after.messages)].name = tools[i]

\* C14 as stated: a line without a tool marker that starts with a prompt
\* marker, the marker alone included, adds and changes no message, and no
\* block is open afterwards.
C14_PromptDropped ==
    (/\ l_pc = "done"
     /\ ~HasToolMarker(l_line)
     /\ \E m \in {<<PromptGlyph, SP>>, <<">", SP>>, <<"$", SP>>} :
           starts_with(l_line, m))
        => /\ l_after.messages = l_before.messages
           /\ ~l_after.accumulating_assistant

\* C15: a blank line puts one newline behind the open Assistant message and
\* leaves the block open; with no block open it changes nothing.
C15_BlankLine ==
    (l_pc = "done" /\ trim(l_line) = <<>>)
        => IF l_before.accumulating_assistant
           THEN /\ LastExtendedBy(l_before, l_after, <<NL>>)
                /\ l_after.accumulating_assistant
           ELSE l_after = l_before

\* C15's case: a line of blanks with an Assistant block open.
C15_Witness ==
    /\ l_pc = "done"
    /\ l_line = <<SP, SP>>
    /\ l_before.accumulating_assistant
    /\ Len(l_after.messages[Len(l_after.messages)].content)
          = Len(l_before.messages[Len(l_before.messages)].content) + 1

====
